---- MODULE Spec2Model ----
(***************************************************************************)
(* MyVocab: the Dexie database layer (db/index.ts, latest schema version). *)
(*                                                                         *)
(* Tables are functions whose DOMAIN is the set of keys present.  Strings  *)
(* whose characters matter (english, sentences) are tuples of one-letter   *)
(* strings.  An instant is a number of hours since 00:00 UTC of day 0; an  *)
(* ISO date string 'YYYY-MM-DD' is represented by its UTC day number and   *)
(* the empty string '' by EmptyDate.                                       *)
(***************************************************************************)
EXTENDS Integers, Sequences, FiniteSets, TLC

VARIABLES
    words,              \* db.words: id -> Word
    nextId,             \* number of ids handed out by crypto.randomUUID() so far + 1
    result,             \* the last database call: its name, its argument, its return value
    hist,               \* history: id -> review events applied to that word, oldest first
    streakData,         \* db.streakData: STREAK_ID -> StreakData
    dailyReviewCounts,  \* db.dailyReviewCounts: date -> count
    now,                \* the clock, in hours (UTC)
    zone,               \* the device's time zone
    maxCurrentSeen,     \* history: the largest currentStreak ever stored
    localStorage,       \* window.localStorage: key -> stored string
    flash               \* the state of the Flashcards component

wordVars   == <<words, nextId, result, hist>>
streakVars == <<streakData, dailyReviewCounts, maxCurrentSeen>>
clockVars  == <<now, zone>>
uiVars     == <<localStorage, flash>>
vars       == <<words, nextId, result, hist, streakData, dailyReviewCounts, now, zone,
                maxCurrentSeen, localStorage, flash>>

----------------------------------------------------------------------------
(* Bounds *)

MaxIds == 3             \* ids crypto.randomUUID() may hand out
MaxReviews == 6         \* review events applied to the word store in total
MaxBatch == 2           \* longest batch given to bulkAddWords
MaxFrameHour == 12     \* the clock of the frame specification stops at this hour
MaxFrameIds == 2       \* ids handed out in the frame specification
MaxFrameReviews == 1   \* review events in the frame specification
MaxRows == 2           \* rows of the table in the specification of reads
MaxResumeReviews == 3  \* card outcomes in the specification of resumed sessions
MaxInFlight == 2       \* handler calls awaiting the store at one time
MaxRaceCalls == 2      \* review operations in flight at one time
MaxRaceReviews == 3    \* review operations begun in the specification of races
MaxDay == 2             \* the clock stops at the end of day MaxDay
MaxReviewsPerDay == 21  \* updateStreak calls on one day
MaxWordReviews == 3     \* review events in the specification of all word operations
MaxWordIds == 2         \* ids handed out in the specification of all word operations
MaxAppReviews == 3      \* updateStreak calls in the specification of the store's handlers
MaxRangeReviews == 2    \* updateStreak calls on one day in the range specification
MaxAnswers == 29        \* correctCount + wrongCount of a word given to the session filter

\* the largest session size entered
MaxSize == 21

\* updateStreak calls in the specification of the flashcards view
MaxSessionReviews == 4

\* updateStreak calls before the options screen is opened
MaxOptionReviews == 2

----------------------------------------------------------------------------
(* Generic helpers *)

Put(t, k, v) == [x \in (DOMAIN t) \cup {k} |-> IF x = k THEN v ELSE t[x]]

Remove(t, k) == [x \in (DOMAIN t) \ {k} |-> t[x]]

EmptyTable == [x \in {} |-> 0]

Max(a, b) == IF a >= b THEN a ELSE b

Min(a, b) == IF a <= b THEN a ELSE b

Last(s) == s[Len(s)]

\* Array.prototype.slice(0, n)
Slice0(s, n) == SubSeq(s, 1, Min(n, Len(s)))

\* String.prototype.toLowerCase, character by character
LowerChar(c) ==
    CASE c = "C" -> "c"
      [] c = "A" -> "a"
      [] c = "T" -> "t"
      [] c = "D" -> "d"
      [] OTHER   -> c

toLowerCase(s) == [i \in 1..Len(s) |-> LowerChar(s[i])]

\* String.prototype.trim
RECURSIVE TrimStart(_)
TrimStart(s) == IF s # <<>> /\ Head(s) = " " THEN TrimStart(Tail(s)) ELSE s

RECURSIVE TrimEnd(_)
TrimEnd(s) == IF s # <<>> /\ Last(s) = " " THEN TrimEnd(SubSeq(s, 1, Len(s) - 1)) ELSE s

trim(s) == TrimEnd(TrimStart(s))

\* Boolean(s) of a string
Truthy(s) == s # <<>>

\* Array.prototype.filter(Boolean) over strings
RECURSIVE filterBoolean(_)
filterBoolean(ss) ==
    IF ss = <<>> THEN <<>>
    ELSE (IF Truthy(Head(ss)) THEN <<Head(ss)>> ELSE <<>>) \o filterBoolean(Tail(ss))

----------------------------------------------------------------------------
(* Word operations *)

NoDate == -1    \* lastReviewedAt of a word never reviewed (field absent)

NullId == 0     \* id: null in the result of addWord

Statuses == {"new", "known", "problem"}

STREAK_TO_KNOWN == 3    \* "If streak reaches 3, change status to known"

equalsCaseSensitive(key, needle) == key = needle

\* Dexie's equalsIgnoreCase: lower(key) === lower(needle)
equalsIgnoreCase(key, needle) == toLowerCase(key) = toLowerCase(needle)

wordExists(english) == \E id \in DOMAIN words : equalsIgnoreCase(words[id].english, english)

\* addWord: the sentences stored for a draft
addWordSentences(draft) ==
    LET sentences == Slice0(filterBoolean(draft.exampleSentences), 3)
    IN  IF Len(sentences) > 0 THEN sentences ELSE << <<>> >>

\* bulkAddWords: normalizeSentences
normalizeSentences(ss) ==
    LET trimmed == [i \in 1..Len(filterBoolean(ss)) |-> trim(filterBoolean(ss)[i])]
        out == Slice0(trimmed, 3)
    IN  IF Len(out) > 0 THEN out ELSE << <<>> >>

newWord(draft, sentences) ==
    [ english          |-> draft.english,
      arabicMeanings   |-> draft.arabicMeanings,
      exampleSentences |-> sentences,
      status           |-> "new",
      wrongCount       |-> 0,
      correctCount     |-> 0,
      streak           |-> 0,
      createdAt        |-> now,
      lastReviewedAt   |-> NoDate ]

\* variant of addWord: a duplicate is reported but the stored word is rewritten
addWord_rewriteDuplicate(draft) ==
    IF wordExists(draft.english)
    THEN /\ result' = [op |-> "addWord", english |-> draft.english,
                        id |-> NullId, isDuplicate |-> TRUE]
         /\ words' = [id \in DOMAIN words |->
                        IF equalsIgnoreCase(words[id].english, draft.english)
                        THEN newWord(draft, addWordSentences(draft))
                        ELSE words[id]]
         /\ UNCHANGED <<nextId, hist>>
    ELSE /\ nextId <= MaxIds
         /\ words' = Put(words, nextId, newWord(draft, addWordSentences(draft)))
         /\ hist' = Put(hist, nextId, <<>>)
         /\ nextId' = nextId + 1
         /\ result' = [op |-> "addWord", english |-> draft.english,
                        id |-> nextId, isDuplicate |-> FALSE]

addWord(draft) ==
    IF wordExists(draft.english)
    THEN /\ result' = [op |-> "addWord", english |-> draft.english,
                        id |-> NullId, isDuplicate |-> TRUE]
         /\ UNCHANGED <<words, nextId, hist>>
    ELSE /\ nextId <= MaxIds
         /\ words' = Put(words, nextId, newWord(draft, addWordSentences(draft)))
         /\ hist' = Put(hist, nextId, <<>>)
         /\ nextId' = nextId + 1
         /\ result' = [op |-> "addWord", english |-> draft.english,
                        id |-> nextId, isDuplicate |-> FALSE]

\* variant of updateWordStatus: the streak is cleared with the status
updateWordStatus_clearStreak(id, status) ==
    /\ words' = IF id \in DOMAIN words
                THEN [words EXCEPT ![id].status = status, ![id].streak = 0,
                                   ![id].lastReviewedAt = now]
                ELSE words
    /\ result' = [op |-> "updateWordStatus"]
    /\ UNCHANGED <<nextId, hist>>

updateWordStatus(id, status) ==
    /\ words' = IF id \in DOMAIN words
                THEN [words EXCEPT ![id].status = status, ![id].lastReviewedAt = now]
                ELSE words
    /\ result' = [op |-> "updateWordStatus"]
    /\ UNCHANGED <<nextId, hist>>

wrongUpdate_keepStreak(word) ==
    [word EXCEPT !.wrongCount     = word.wrongCount + 1,
                 !.status         = "problem",
                 !.streak         = IF word.status = "problem" THEN word.streak ELSE 0,
                 !.lastReviewedAt = now]

\* incrementWrongCount: the record written for a stored word
wrongUpdate(word) ==
    [word EXCEPT !.wrongCount     = word.wrongCount + 1,
                 !.correctCount   = word.correctCount,
                 !.status         = "problem",
                 !.streak         = 0,
                 !.lastReviewedAt = now]

incrementWrongCount(id) ==
    /\ IF id \in DOMAIN words
       THEN /\ words' = [words EXCEPT ![id] = wrongUpdate(words[id])]
            /\ hist' = [hist EXCEPT ![id] = Append(hist[id], "wrong")]
       ELSE UNCHANGED <<words, hist>>
    /\ result' = [op |-> "incrementWrongCount"]
    /\ UNCHANGED nextId

\* variants of correctUpdate: promotion one answer early; streak kept on
\* promotion; wrongCount cleared on promotion
correctUpdate_early(word) ==
    LET bumped == word.streak + 1
        stays  == word.status = "problem" /\ bumped < STREAK_TO_KNOWN - 1
    IN  [word EXCEPT !.correctCount   = word.correctCount + 1,
                     !.status         = IF stays THEN "problem" ELSE "known",
                     !.streak         = IF stays THEN bumped ELSE 0,
                     !.lastReviewedAt = now]

correctUpdate_keepStreak(word) ==
    LET bumped == word.streak + 1
        stays  == word.status = "problem" /\ bumped < STREAK_TO_KNOWN
    IN  [word EXCEPT !.correctCount   = word.correctCount + 1,
                     !.status         = IF stays THEN "problem" ELSE "known",
                     !.streak         = IF word.status = "problem" THEN bumped ELSE 0,
                     !.lastReviewedAt = now]

correctUpdate_dropWrong(word) ==
    LET bumped == word.streak + 1
        stays  == word.status = "problem" /\ bumped < STREAK_TO_KNOWN
    IN  [word EXCEPT !.correctCount   = word.correctCount + 1,
                     !.wrongCount     = IF stays THEN word.wrongCount ELSE 0,
                     !.status         = IF stays THEN "problem" ELSE "known",
                     !.streak         = IF stays THEN bumped ELSE 0,
                     !.lastReviewedAt = now]

\* incrementCorrectCount: the record written for a stored word
correctUpdate(word) ==
    LET currentStreak == word.streak                    \* word.streak || 0
        bumped    == currentStreak + 1
        newStatus == CASE word.status = "new"     -> "known"
                       [] word.status = "problem" -> IF bumped >= STREAK_TO_KNOWN
                                                     THEN "known" ELSE "problem"
                       [] OTHER                   -> "known"
        newStreak == CASE word.status = "new"     -> 0
                       [] word.status = "problem" -> IF bumped >= STREAK_TO_KNOWN
                                                     THEN 0 ELSE bumped
                       [] OTHER                   -> 0
    IN  [word EXCEPT !.correctCount   = word.correctCount + 1,
                     !.wrongCount     = word.wrongCount,
                     !.status         = newStatus,
                     !.streak         = newStreak,
                     !.lastReviewedAt = now]

incrementCorrectCount(id) ==
    /\ IF id \in DOMAIN words
       THEN /\ words' = [words EXCEPT ![id] = correctUpdate(words[id])]
            /\ hist' = [hist EXCEPT ![id] = Append(hist[id], "correct")]
       ELSE UNCHANGED <<words, hist>>
    /\ result' = [op |-> "incrementCorrectCount"]
    /\ UNCHANGED nextId

\* updateWordContent: filter((s) => s && String(s).trim())
RECURSIVE filterNonBlank(_)
filterNonBlank(ss) ==
    IF ss = <<>> THEN <<>>
    ELSE (IF Truthy(Head(ss)) /\ Truthy(trim(Head(ss))) THEN <<Head(ss)>> ELSE <<>>)
         \o filterNonBlank(Tail(ss))

\* normalizeWord: a raw row read from the table; the list is taken from
\* exampleSentences when that is a non-empty array, else from a non-blank
\* legacy exampleSentence, else it is ['']
normalizeWord(raw) ==
    LET exampleSentences ==
          IF "exampleSentences" \in DOMAIN raw /\ Len(raw.exampleSentences) > 0
          THEN Slice0(filterBoolean(raw.exampleSentences), 3)
          ELSE IF "exampleSentence" \in DOMAIN raw /\ Truthy(trim(raw.exampleSentence))
               THEN <<raw.exampleSentence>>
               ELSE << <<>> >>
    IN  [f \in DOMAIN raw \cup {"exampleSentences"} |->
            IF f = "exampleSentences" THEN exampleSentences ELSE raw[f]]

\* getAllWords / getWordsByStatus: the rows read, each normalized
getAllWords == [id \in DOMAIN words |-> normalizeWord(words[id])]

getWordsByStatus(status) ==
    [id \in {w \in DOMAIN words : words[w].status = status} |-> normalizeWord(words[id])]

\* variant of contentSentences: no cap on the number of sentences
contentSentences_noCap(ss) ==
    IF Len(filterNonBlank(ss)) = 0 THEN << <<>> >> ELSE filterNonBlank(ss)

\* updateWordContent: the exampleSentences written when a list is supplied
contentSentences(ss) ==
    LET kept == Slice0(filterNonBlank(ss), 3)
    IN  IF Len(kept) = 0 THEN << <<>> >> ELSE kept

\* variant of contentUpdate: an edit also counts as a review of the word
contentUpdate_stamping(word, updates) ==
    [word EXCEPT !.arabicMeanings   = IF "arabicMeanings" \in DOMAIN updates
                                      THEN updates.arabicMeanings ELSE @,
                 !.exampleSentences = IF "exampleSentences" \in DOMAIN updates
                                      THEN contentSentences(updates.exampleSentences) ELSE @,
                 !.lastReviewedAt   = now]

\* updateWordContent: updates holds the fields supplied
contentUpdate(word, updates) ==
    [word EXCEPT !.arabicMeanings   = IF "arabicMeanings" \in DOMAIN updates
                                      THEN updates.arabicMeanings ELSE @,
                 !.exampleSentences = IF "exampleSentences" \in DOMAIN updates
                                      THEN contentSentences(updates.exampleSentences) ELSE @]

updateWordContent(id, updates) ==
    /\ words' = IF id \in DOMAIN words
                THEN [words EXCEPT ![id] = contentUpdate(words[id], updates)]
                ELSE words
    /\ result' = [op |-> "updateWordContent"]
    /\ UNCHANGED <<nextId, hist>>

deleteWord(id) ==
    /\ words' = Remove(words, id)
    /\ hist' = Remove(hist, id)
    /\ result' = [op |-> "deleteWord"]
    /\ UNCHANGED nextId

\* variant of bulkFilter: the batch is checked against the store only
RECURSIVE bulkFilter_storeOnly(_, _, _)
bulkFilter_storeOnly(batch, existingSet, acc) ==
    IF batch = <<>> THEN acc
    ELSE LET word == Head(batch)
             lowerWord == toLowerCase(word.english)
         IN  IF lowerWord \in existingSet
             THEN bulkFilter_storeOnly(Tail(batch), existingSet,
                             [acc EXCEPT !.skipped = Append(acc.skipped, word.english)])
             ELSE bulkFilter_storeOnly(Tail(batch), existingSet,
                             [acc EXCEPT !.keep = Append(acc.keep, word)])

\* bulkAddWords: the filter callback run over the batch, left to right.
\* acc = [keep |-> drafts kept, seen |-> seenInImport, skipped |-> skippedWords]
RECURSIVE bulkFilter(_, _, _)
bulkFilter(batch, existingSet, acc) ==
    IF batch = <<>> THEN acc
    ELSE LET word == Head(batch)
             lowerWord == toLowerCase(word.english)
         IN  IF lowerWord \in existingSet \/ lowerWord \in acc.seen
             THEN bulkFilter(Tail(batch), existingSet,
                             [acc EXCEPT !.skipped = Append(acc.skipped, word.english)])
             ELSE bulkFilter(Tail(batch), existingSet,
                             [acc EXCEPT !.keep = Append(acc.keep, word),
                                         !.seen = acc.seen \cup {lowerWord}])

bulkAddWords(batch) ==
    LET existingSet == {toLowerCase(words[id].english) : id \in DOMAIN words}
        f == bulkFilter(batch, existingSet, [keep |-> <<>>, seen |-> {}, skipped |-> <<>>])
        wordsToAdd == f.keep
        n == Len(wordsToAdd)
        newIds == nextId .. (nextId + n - 1)
    IN  /\ nextId + n - 1 <= MaxIds
        /\ words' = [id \in (DOMAIN words) \cup newIds |->
                        IF id \in newIds
                        THEN newWord(wordsToAdd[id - nextId + 1],
                                     normalizeSentences(wordsToAdd[id - nextId + 1].exampleSentences))
                        ELSE words[id]]
        /\ hist' = [id \in (DOMAIN hist) \cup newIds |->
                        IF id \in newIds THEN <<>> ELSE hist[id]]
        /\ nextId' = nextId + n
        /\ result' = [op |-> "bulkAddWords", batch |-> batch, added |-> n,
                      skipped |-> Len(f.skipped), skippedWords |-> f.skipped]

----------------------------------------------------------------------------
(* Clock and dates *)

HoursPerDay == 24

EmptyDate == <<>>                       \* the string ''

\* new Date(t).toISOString().split('T')[0]: the UTC calendar day of instant t
isoDate(t) == <<t \div HoursPerDay>>

DayOf(date) == date[1]

\* offset of local time from UTC, in hours, at UTC instant t
offsetAt(t) == IF t < zone.at THEN zone.before ELSE zone.after

\* offset used to turn local time tl back into UTC; a local time that is
\* repeated or skipped at the transition is read with the offset before it
offsetOfLocal(tl) == IF tl < zone.at + Max(zone.before, zone.after)
                     THEN zone.before ELSE zone.after

\* const d = new Date(t); d.setDate(d.getDate() - 1): same local wall-clock
\* time on the previous local day, as a UTC instant
setDateMinusOne(t) ==
    LET local == t + offsetAt(t)
        prev  == local - HoursPerDay
    IN  prev - offsetOfLocal(prev)

today == isoDate(now)

yesterdayStr == isoDate(setDateMinusOne(now))

----------------------------------------------------------------------------
(* Streak operations *)

STREAK_ID == "main-streak"

DAILY_QUOTA == 20

zeroStreak ==
    [ id               |-> STREAK_ID,
      currentStreak    |-> 0,
      longestStreak    |-> 0,
      lastActivityDate |-> EmptyDate,
      reviewsToday     |-> 0,
      reviewsDate      |-> EmptyDate ]

\* getStreakData: the row returned (and stored, when it was absent)
loadedStreak == IF STREAK_ID \in DOMAIN streakData THEN streakData[STREAK_ID] ELSE zeroStreak

getStreakData ==
    /\ streakData' = Put(streakData, STREAK_ID, loadedStreak)
    /\ maxCurrentSeen' = Max(maxCurrentSeen, loadedStreak.currentStreak)
    /\ UNCHANGED dailyReviewCounts

\* variant of incrementDailyReviewCount: a new row replaces the table
incrementDailyReviewCount_replace(date) ==
    IF date \in DOMAIN dailyReviewCounts
    THEN [dailyReviewCounts EXCEPT ![date] = dailyReviewCounts[date] + 1]
    ELSE Put(EmptyTable, date, 1)

\* variant of incrementDailyReviewCount: an existing row is left as it is
incrementDailyReviewCount_addOnly(date) ==
    IF date \in DOMAIN dailyReviewCounts
    THEN dailyReviewCounts
    ELSE Put(dailyReviewCounts, date, 1)

incrementDailyReviewCount(date) ==
    IF date \in DOMAIN dailyReviewCounts
    THEN [dailyReviewCounts EXCEPT ![date] = dailyReviewCounts[date] + 1]
    ELSE Put(dailyReviewCounts, date, 1)

countedToday_noReset(streak) == streak.reviewsToday + 1

\* updateStreak: reviewsToday after the new-day reset and the increment
countedToday(streak) ==
    (IF streak.reviewsDate # today THEN 0 ELSE streak.reviewsToday) + 1

quotaReached_atLeast(reviewsToday) == reviewsToday >= DAILY_QUOTA

\* updateStreak: the test that triggers the streak update
quotaReached(reviewsToday) == reviewsToday = DAILY_QUOTA

\* updateStreak: newCurrentStreak
newCurrentStreak(streak) ==
    IF streak.lastActivityDate = yesterdayStr
    THEN streak.currentStreak + 1
    ELSE 1

newLongestStreak_noMax(streak, current) == current

\* updateStreak: newLongestStreak
newLongestStreak(streak, current) == Max(streak.longestStreak, current)

updatedStreak_alwaysStamp(streak) ==
    LET reviewsToday == countedToday(streak)
    IN  IF quotaReached(reviewsToday)
        THEN [streak EXCEPT !.currentStreak    = newCurrentStreak(streak),
                            !.longestStreak    = newLongestStreak(streak, newCurrentStreak(streak)),
                            !.lastActivityDate = today,
                            !.reviewsToday     = reviewsToday,
                            !.reviewsDate      = today]
        ELSE [streak EXCEPT !.lastActivityDate = today,
                            !.reviewsToday     = reviewsToday,
                            !.reviewsDate      = today]

\* updateStreak: the row written
updatedStreak(streak) ==
    LET reviewsToday == countedToday(streak)
        reviewsDate  == today
    IN  IF quotaReached(reviewsToday)
        THEN [streak EXCEPT !.currentStreak    = newCurrentStreak(streak),
                            !.longestStreak    = newLongestStreak(streak, newCurrentStreak(streak)),
                            !.lastActivityDate = today,
                            !.reviewsToday     = reviewsToday,
                            !.reviewsDate      = reviewsDate]
        ELSE [streak EXCEPT !.reviewsToday = reviewsToday,
                            !.reviewsDate  = reviewsDate]

updateStreak ==
    /\ countedToday(loadedStreak) <= MaxReviewsPerDay
    /\ dailyReviewCounts' = incrementDailyReviewCount(today)
    /\ streakData' = Put(streakData, STREAK_ID, updatedStreak(loadedStreak))
    /\ maxCurrentSeen' = Max(maxCurrentSeen, updatedStreak(loadedStreak).currentStreak)

----------------------------------------------------------------------------
(* The range query over the daily review counts *)

\* new Date(date + 'T12:00:00'): noon of that day in local time, as a UTC instant
localNoon(date) ==
    LET tl == DayOf(date) * HoursPerDay + 12
    IN  tl - offsetOfLocal(tl)

\* d.setDate(d.getDate() + 1): same local wall-clock time on the next local day
setDatePlusOne(t) ==
    LET next == t + offsetAt(t) + HoursPerDay
    IN  next - offsetOfLocal(next)

\* getDatesInRange: the loop from instant d to instant endD
RECURSIVE datesFrom(_, _)
datesFrom(d, endD) ==
    IF d <= endD THEN <<isoDate(d)>> \o datesFrom(setDatePlusOne(d), endD) ELSE <<>>

getDatesInRange(start, end) == datesFrom(localNoon(start), localNoon(end))

\* bulkGet(dates), then counts[i]?.count ?? 0
reviewCounts(dates) ==
    [i \in 1..Len(dates) |->
        [date  |-> dates[i],
         count |-> IF dates[i] \in DOMAIN dailyReviewCounts
                   THEN dailyReviewCounts[dates[i]] ELSE 0]]

getReviewCountsByDateRange(startDate, endDate) ==
    /\ result' = [op |-> "getReviewCountsByDateRange", startDate |-> startDate,
                  endDate |-> endDate,
                  rows |-> reviewCounts(getDatesInRange(startDate, endDate))]
    /\ UNCHANGED <<words, nextId, hist>>

----------------------------------------------------------------------------
(* The session filter's progress buckets (Flashcards) *)

\* variant of calculateLearningPercentage: the percentage is truncated
calculateLearningPercentage_floor(correctCount, wrongCount) ==
    LET total == correctCount + wrongCount
    IN  IF total = 0 THEN 0 ELSE (100 * correctCount) \div total

\* Math.round((correctCount / total) * 100): the nearest integer, a half
\* going up; exact in integers for the totals below
calculateLearningPercentage(correctCount, wrongCount) ==
    LET total == correctCount + wrongCount
    IN  IF total = 0 THEN 0 ELSE (200 * correctCount + total) \div (2 * total)

ProgressFilters == {"all", "moderate", "hard", "very hard"}

\* variant of matchesProgress: the hard bucket includes 66
matchesProgress_closed(progressFilter, correctCount, wrongCount) ==
    LET progress == calculateLearningPercentage(correctCount, wrongCount)
    IN  CASE progressFilter = "moderate"  -> progress >= 66 /\ progress < 90
          [] progressFilter = "hard"      -> progress >= 33 /\ progress <= 66
          [] progressFilter = "very hard" -> progress < 33
          [] OTHER                        -> TRUE

\* filterByProgress: whether a word with these counters is kept
matchesProgress(progressFilter, correctCount, wrongCount) ==
    LET progress == calculateLearningPercentage(correctCount, wrongCount)
    IN  CASE progressFilter = "moderate"  -> progress >= 66 /\ progress < 90
          [] progressFilter = "hard"      -> progress >= 33 /\ progress < 66
          [] progressFilter = "very hard" -> progress < 33
          [] OTHER                        -> TRUE

\* filterByProgress on one word, under every progress filter
filterByProgress(correctCount, wrongCount) ==
    /\ result' = [op |-> "filterByProgress",
                  correctCount |-> correctCount, wrongCount |-> wrongCount,
                  kept |-> [f \in ProgressFilters |->
                                matchesProgress(f, correctCount, wrongCount)]]
    /\ UNCHANGED <<words, nextId, hist>>

----------------------------------------------------------------------------
(* The environment: the clock moves forward; readings are sampled at       *)
(* ClockHours of each day.                                                 *)

ClockHours == {0, 12, 23}

ClockReadings == {d * HoursPerDay + h : d \in 0..MaxDay, h \in ClockHours}

Tick ==
    /\ \E t \in ClockReadings : t > now /\ now' = t
    /\ UNCHANGED zone

\* a zone: offset `before` until UTC instant `at`, offset `after` from then on
Utc == [before |-> 0, after |-> 0, at |-> 0]

Zones ==
    { Utc,                                                      \* no daylight saving
      [before |-> 1, after |-> 0, at |-> HoursPerDay + 1],      \* clocks go back on day 1
      [before |-> 0, after |-> 1, at |-> HoursPerDay + 1] }     \* clocks go forward on day 1

\* the zones of the range query: those above and one 13 hours ahead of UTC
RangeZones == Zones \cup { [before |-> 13, after |-> 13, at |-> 0] }

\* the dates a range is asked for
RangeDates == { <<d>> : d \in 0..MaxDay }

----------------------------------------------------------------------------
(* Inputs *)

Cat_  == <<"C", "a", "t">>
cat_  == <<"c", "a", "t">>
CAT_  == <<"C", "A", "T">>
dog_  == <<"d", "o", "g">>

Meanings == << <<"q">> >>

S1 == <<"x">>
S2 == <<" ", "y", " ">>
Blank == <<" ">>

Draft(e, ss) == [english |-> e, arabicMeanings |-> Meanings, exampleSentences |-> ss]

\* drafts for the store specification: case variants, sentence lists of every shape
StoreDrafts ==
    { Draft(Cat_, <<>>), Draft(cat_, <<S1, <<>>, S2, S1, S2>>),
      Draft(CAT_, <<Blank>>), Draft(dog_, <<S2>>) }

\* drafts for the review specification
ReviewDrafts == { Draft(cat_, <<S1>>), Draft(dog_, <<S1>>) }

\* batches for the review specification: two drafts, repeats included
ReviewBatches == { <<d1, d2>> : d1, d2 \in ReviewDrafts }

Batches(drafts) == UNION { [1..n -> drafts] : n \in 0..MaxBatch }

Ids == 1..MaxIds

Meanings2 == << <<"r">>, <<"q">> >>

\* updates for the specification of all word operations
WordUpdates ==
    { [arabicMeanings |-> Meanings2, exampleSentences |-> <<Blank, S2, S1, S1, S2>>] }

\* sentence lists of every shape: empty, only empty or blank entries, more
\* than three entries
SentenceLists ==
    { <<>>, << <<>> >>, <<Blank>>, << <<>>, Blank, S2 >>, <<S1, <<>>, S2, S1, S2>> }

\* drafts and updates for the content specification
ContentDrafts ==
    { Draft(cat_, <<>>), Draft(cat_, <<S1, <<>>, S2, S1, S2>>),
      Draft(dog_, <<Blank>>), Draft(dog_, << <<>>, Blank, S2 >>) }

\* batches for the content specification: two drafts, repeats included
ContentBatches == { <<d1, d2>> : d1, d2 \in ContentDrafts }

ContentUpdates ==
    { [exampleSentences |-> ss] : ss \in SentenceLists } \cup { [arabicMeanings |-> Meanings2] }

\* words for the store's handlers
AppWords == {cat_, dog_}

AppBatches == { <<Draft(e1, <<>>), Draft(e2, <<>>)>> : e1, e2 \in AppWords }

----------------------------------------------------------------------------
(* The store's handlers (useVocabStore). Each is the sequence of database  *)
(* calls the handler awaits; the loadWords / loadProblemWords / loadStats  *)
(* refreshes that follow only read the database, and the loadStreak that   *)
(* follows updateStreak finds the row updateStreak has just written.       *)

\* saveWord passes exampleSentence, so addWord sees no exampleSentences
saveWord(english) ==
    /\ addWord(Draft(english, <<>>))
    /\ IF wordExists(english) THEN UNCHANGED streakVars ELSE updateStreak

markAsKnown(id) == incrementCorrectCount(id) /\ updateStreak

markAsProblem(id) == incrementWrongCount(id) /\ updateStreak

markProblemAsKnown(id) == incrementCorrectCount(id) /\ updateStreak

markProblemAsStillProblem(id) == incrementWrongCount(id) /\ updateStreak

removeWord(id) == deleteWord(id) /\ UNCHANGED streakVars

\* the store's updateWordContent passes { arabicMeanings, exampleSentence }
editWordContent(id, arabicMeanings) ==
    updateWordContent(id, [arabicMeanings |-> arabicMeanings]) /\ UNCHANGED streakVars

\* importWords passes words with exampleSentence and no exampleSentences
importWords(batch) == bulkAddWords(batch) /\ UNCHANGED streakVars

loadStreak == getStreakData /\ UNCHANGED wordVars

----------------------------------------------------------------------------
(* localStorage and the values kept in it (flashcardSessionStorage). A     *)
(* stored string is either the text of a JSON document or plain            *)
(* characters; a JSON value carries its type.                              *)

STORAGE_KEY == "myvocab-flashcard-session"

SESSION_SIZE_KEY == "myvocab-flashcard-session-size"

DEFAULT_SESSION_SIZE == 20

JsonText(j) == [kind |-> "json", value |-> j]

PlainText(cs) == [kind |-> "text", chars |-> cs]

JNum(n) == [t |-> "number", n |-> n]

JStr(str) == [t |-> "string", s |-> str]

\* an ISO timestamp: the string of the instant h
JDate(h) == [t |-> "string", iso |-> h]

JArr(a) == [t |-> "array", a |-> a]

JObj(o) == [t |-> "object", o |-> o]

JNull == [t |-> "null"]

JUndefined == [t |-> "undefined"]

\* o.k for a parsed object o
Field(o, k) == IF k \in DOMAIN o THEN o[k] ELSE JUndefined

IsArray(v) == v.t = "array"

typeofJ(v) == CASE v.t = "number"    -> "number"
                [] v.t = "string"    -> "string"
                [] v.t = "undefined" -> "undefined"
                [] OTHER             -> "object"

\* localStorage.getItem: no element for null
getItem(key) == IF key \in DOMAIN localStorage THEN <<localStorage[key]>> ELSE <<>>

setItem(storage, key, raw) == Put(storage, key, raw)

removeItem(storage, key) == Remove(storage, key)

\* JSON.stringify(session)
stringifySession(session) ==
    JsonText(JObj([wordIds      |-> JArr(session.wordIds),
                   currentIndex |-> JNum(session.currentIndex),
                   filterType   |-> JStr(session.filterType),
                   dateRange    |-> JNum(session.dateRange),
                   savedAt      |-> JDate(session.savedAt),
                   knownCount   |-> JNum(session.knownCount),
                   problemCount |-> JNum(session.problemCount)]))

\* parsed.filterType ?? 'all': the JSON value read, of whatever type, unless
\* it is undefined or null
filterTypeOr(v) == IF v.t \in {"undefined", "null"} THEN JStr("all") ELSE v

\* typeof v === 'number' ? v : default
numberOr(v, default) == IF typeofJ(v) = "number" THEN v.n ELSE default

\* the session read from a parsed object whose wordIds and currentIndex are valid
sessionOf(o) ==
    [wordIds      |-> Field(o, "wordIds").a,
     currentIndex |-> Field(o, "currentIndex").n,
     filterType   |-> filterTypeOr(Field(o, "filterType")),
     dateRange    |-> numberOr(Field(o, "dateRange"), 30),
     savedAt      |-> IF typeofJ(Field(o, "savedAt")) = "string" /\ "iso" \in DOMAIN Field(o, "savedAt")
                      THEN Field(o, "savedAt").iso ELSE now,
     knownCount   |-> numberOr(Field(o, "knownCount"), 0),
     problemCount |-> numberOr(Field(o, "problemCount"), 0)]

\* getSavedSession on the stored string raw: no element for null. Plain
\* characters are the empty string or make JSON.parse throw; a property read
\* on the parsed null throws; on a number, a string or an array it gives
\* undefined.
parseSession(raw) ==
    IF raw.kind = "text" THEN <<>>
    ELSE IF raw.value.t # "object" THEN <<>>
    ELSE IF \/ ~IsArray(Field(raw.value.o, "wordIds"))
            \/ typeofJ(Field(raw.value.o, "currentIndex")) # "number" THEN <<>>
    ELSE <<sessionOf(raw.value.o)>>

getSavedSession == IF Len(getItem(STORAGE_KEY)) = 0 THEN <<>>
                   ELSE parseSession(getItem(STORAGE_KEY)[1])

saveSession(storage, session) == setItem(storage, STORAGE_KEY, stringifySession(session))

clearSavedSession(storage) == removeItem(storage, STORAGE_KEY)

\* the key of the last-completed slot
LAST_COMPLETED_KEY == "myvocab-flashcard-last-completed"

\* the last-completed slot is replaced whole
saveLastCompletedSession(storage, session) ==
    setItem(storage, LAST_COMPLETED_KEY, stringifySession(session))

\* the snapshot in the last-completed slot: no element for null
getLastCompletedSession ==
    IF Len(getItem(LAST_COMPLETED_KEY)) = 0 THEN <<>>
    ELSE LET o == getItem(LAST_COMPLETED_KEY)[1].value.o
         IN  <<[wordIds      |-> o.wordIds.a,
                currentIndex |-> o.currentIndex.n,
                filterType   |-> o.filterType.s,
                dateRange    |-> o.dateRange.n,
                savedAt      |-> o.savedAt.iso,
                knownCount   |-> o.knownCount.n,
                problemCount |-> o.problemCount.n]>>

Digits == <<"0", "1", "2", "3", "4", "5", "6", "7", "8", "9">>

IsDigit(c) == \E d \in 1..10 : Digits[d] = c

DigitOf(c) == (CHOOSE d \in 1..10 : Digits[d] = c) - 1

\* String(size) for an integer
RECURSIVE numberToString(_)
numberToString(n) ==
    IF n < 0 THEN <<"-">> \o numberToString(0 - n)
    ELSE IF n < 10 THEN <<Digits[n + 1]>>
    ELSE numberToString(n \div 10) \o <<Digits[(n % 10) + 1]>>

\* the value of the leading digits of cs, after acc
RECURSIVE leadingDigits(_, _)
leadingDigits(cs, acc) ==
    IF cs # <<>> /\ IsDigit(Head(cs))
    THEN leadingDigits(Tail(cs), 10 * acc + DigitOf(Head(cs)))
    ELSE acc

\* parseInt(raw, 10): no element for NaN
parseInt(cs) ==
    LET t    == TrimStart(cs)
        neg  == t # <<>> /\ Head(t) = "-"
        body == IF t # <<>> /\ Head(t) \in {"-", "+"} THEN Tail(t) ELSE t
    IN  IF body = <<>> \/ ~IsDigit(Head(body)) THEN <<>>
        ELSE <<(IF neg THEN 0 - leadingDigits(body, 0) ELSE leadingDigits(body, 0))>>

\* getSavedSessionSize on the stored string raw
sessionSizeOf(raw) ==
    IF Len(parseInt(raw.chars)) = 0 \/ parseInt(raw.chars)[1] < 1
    THEN DEFAULT_SESSION_SIZE ELSE parseInt(raw.chars)[1]

getSavedSessionSize == IF Len(getItem(SESSION_SIZE_KEY)) = 0 THEN DEFAULT_SESSION_SIZE
                       ELSE sessionSizeOf(getItem(SESSION_SIZE_KEY)[1])

\* variant of saveSessionSize: every size is stored
saveSessionSize_always(storage, size) ==
    setItem(storage, SESSION_SIZE_KEY, PlainText(numberToString(size)))

saveSessionSize(storage, size) ==
    IF size >= 1 THEN setItem(storage, SESSION_SIZE_KEY, PlainText(numberToString(size)))
    ELSE storage

----------------------------------------------------------------------------
(* The Flashcards component: session options, the session and its memos.   *)
(* The component's words are the store's words, reloaded by every handler  *)
(* that changes them while the component is mounted.                       *)

FilterTypes == {"all", "new", "problem", "date"}

DATE_OPTIONS == {0, 2, 7, 30, 60, 90, 180}

\* startOfToday.setHours(0, 0, 0, 0): the last local midnight, as a UTC instant
startOfToday(t) ==
    LET midnight == ((t + offsetAt(t)) \div HoursPerDay) * HoursPerDay
    IN  midnight - offsetOfLocal(midnight)

\* variant of cutoff: daysBack = 0 is a rolling window of 24 hours
cutoff_rolling(t, dateRange) ==
    IF dateRange = 0 THEN t - HoursPerDay ELSE t - dateRange * HoursPerDay

\* filterWords, case 'date': the cutoff for the clock reading t
cutoff(t, dateRange) ==
    IF dateRange = 0 THEN startOfToday(t) ELSE t - dateRange * HoursPerDay

\* filterWords: the ids of the words kept, at clock reading t
filterWords(t, filterType, dateRange, progressFilter) ==
    CASE filterType = "new" ->
            { id \in DOMAIN words : words[id].status = "new" }
      [] filterType = "problem" ->
            { id \in DOMAIN words :
                /\ words[id].status = "problem"
                /\ matchesProgress(progressFilter, words[id].correctCount,
                                   words[id].wrongCount) }
      [] filterType = "all" ->
            { id \in DOMAIN words :
                matchesProgress(progressFilter, words[id].correctCount,
                                words[id].wrongCount) }
      [] filterType = "date" ->
            { id \in DOMAIN words : words[id].createdAt >= cutoff(t, dateRange) }
      [] OTHER -> DOMAIN words

\* the component before it is mounted and after it is unmounted
closedFlash ==
    [mounted                |-> FALSE,
     sessionStarted         |-> FALSE,
     sessionComplete        |-> FALSE,
     shuffledWords          |-> <<>>,
     currentIndex           |-> 0,
     sessionKnownCount      |-> 0,
     sessionProblemCount    |-> 0,
     filterType             |-> "all",
     dateRange              |-> 30,
     sessionSize            |-> DEFAULT_SESSION_SIZE,
     problemProgressFilter  |-> "all",
     allWordsProgressFilter |-> "all",
     resumableSession       |-> <<>>,
     lastCompletedSession   |-> <<>>,
     filterCountsNow        |-> 0,
     inFlight               |-> <<>>]    \* handler calls awaiting the store

\* the ids of ids that are stored in the table ws, in order
RECURSIVE existing(_, _)
existing(ids, ws) ==
    IF ids = <<>> THEN <<>>
    ELSE (IF Head(ids) \in DOMAIN ws THEN <<Head(ids)>> ELSE <<>>) \o existing(Tail(ids), ws)

\* the resumableSession memo computed from the stored snapshot saved (no
\* element for null) and the words ws
resumableOf(saved, ws) ==
    IF Len(saved) = 0 THEN <<>>
    ELSE IF Len(saved[1].wordIds) = 0 THEN <<>>
    ELSE LET ordered == existing(saved[1].wordIds, ws)
             index   == Min(Max(0, saved[1].currentIndex), Len(ordered) - 1)
         IN  IF Len(ordered) = 0 THEN <<>>
             ELSE <<[words        |-> ordered,
                     currentIndex |-> index,
                     cardsLeft    |-> Len(ordered) - index,
                     knownCount   |-> saved[1].knownCount,
                     problemCount |-> saved[1].problemCount]>>

\* filterCounts, a memo computed at flash.filterCountsNow
filterCountsAll == Cardinality(DOMAIN words)

filterCountsNew == Cardinality(filterWords(flash.filterCountsNow, "new", 0, "all"))

filterCountsProblem == Cardinality(filterWords(flash.filterCountsNow, "problem", 0, "all"))

filterCountsAllByProgress(pf) == Cardinality(filterWords(flash.filterCountsNow, "all", 0, pf))

filterCountsProblemByProgress(pf) ==
    Cardinality(filterWords(flash.filterCountsNow, "problem", 0, pf))

filterCountsDate(days) == Cardinality(filterWords(flash.filterCountsNow, "date", days, "all"))

getDateRangeCount ==
    IF flash.dateRange \in DATE_OPTIONS THEN filterCountsDate(flash.dateRange) ELSE 0

getSelectedFilterCount ==
    CASE flash.filterType = "new"     -> filterCountsNew
      [] flash.filterType = "problem" -> filterCountsProblem
      [] flash.filterType = "date"    -> getDateRangeCount
      [] OTHER                        -> filterCountsAll

\* Math.max(1, Number(sessionSize) || 20)
requested(sessionSize) == Max(1, IF sessionSize = 0 THEN 20 ELSE sessionSize)

getEffectiveSessionSize ==
    IF getSelectedFilterCount = 0 THEN 0
    ELSE Min(requested(flash.sessionSize), getSelectedFilterCount)

\* the lastCompletedSession memo computed from the stored snapshot saved and
\* the words ws
lastCompletedOf(saved, ws) ==
    IF Len(saved) = 0 THEN <<>>
    ELSE IF Len(saved[1].wordIds) = 0 THEN <<>>
    ELSE LET ordered == existing(saved[1].wordIds, ws)
         IN  IF Len(ordered) = 0 THEN <<>>
             ELSE <<[words        |-> ordered,
                     filterType   |-> saved[1].filterType,
                     dateRange    |-> saved[1].dateRange,
                     savedAt      |-> saved[1].savedAt,
                     knownCount   |-> saved[1].knownCount,
                     problemCount |-> saved[1].problemCount,
                     totalWords   |-> Len(ordered)]>>

\* a render after the store's words changed to ws: the memos that depend on
\* [words] are computed again, from what localStorage holds at that moment
rendered(fl, ws) ==
    [fl EXCEPT !.resumableSession     = resumableOf(getSavedSession, ws),
               !.lastCompletedSession = lastCompletedOf(getLastCompletedSession, ws),
               !.filterCountsNow      = now]

\* variant of Arrangements: the shuffle copies elements instead of swapping
Arrangements_copying(S, n) == [1..n -> S]

\* shuffleArray(array).slice(0, n): the n ids may come out in any order
Arrangements(S, n) ==
    { seq \in [1..n -> S] : \A i, j \in 1..n : seq[i] = seq[j] => i = j }

\* the set of the elements of a sequence
Range(seq) == { seq[i] : i \in 1..Len(seq) }

\* the screens of the component
optionsScreen == flash.mounted /\ DOMAIN words # {} /\ ~flash.sessionStarted

completeScreen ==
    flash.mounted /\ DOMAIN words # {} /\ flash.sessionStarted /\ flash.sessionComplete

cardScreen ==
    flash.mounted /\ DOMAIN words # {} /\ flash.sessionStarted /\ ~flash.sessionComplete

\* the snapshot written for the session ids at cursor index
snapshot(ids, index, knownCount, problemCount) ==
    [wordIds      |-> ids,
     currentIndex |-> index,
     filterType   |-> flash.filterType,
     dateRange    |-> flash.dateRange,
     savedAt      |-> now,
     knownCount   |-> knownCount,
     problemCount |-> problemCount]

\* the state a session over the ids shuffled starts in
started(fl, shuffled) ==
    [fl EXCEPT !.shuffledWords       = shuffled,
               !.currentIndex        = 0,
               !.sessionComplete     = FALSE,
               !.sessionKnownCount   = 0,
               !.sessionProblemCount = 0,
               !.sessionStarted      = TRUE]

\* the bucket startSession passes to filterWords (undefined keeps every word)
progressFilterOf(fl) ==
    IF fl.filterType = "problem" THEN fl.problemProgressFilter
    ELSE IF fl.filterType = "all" THEN fl.allWordsProgressFilter
    ELSE "all"

\* variant of startSession: the session takes every matching word
startSession_takeAll ==
    LET filtered == filterWords(now, flash.filterType, flash.dateRange, progressFilterOf(flash))
    IN  IF filtered # {}
        THEN \E shuffled \in Arrangements(filtered, Cardinality(filtered)) :
                /\ flash' = started(flash, shuffled)
                /\ localStorage' = saveSession(localStorage, snapshot(shuffled, 0, 0, 0))
        ELSE UNCHANGED <<flash, localStorage>>

startSession ==
    LET filtered  == filterWords(now, flash.filterType, flash.dateRange, progressFilterOf(flash))
        takeCount == Min(requested(flash.sessionSize), Cardinality(filtered))
    IN  IF filtered # {}
        THEN \E shuffled \in Arrangements(filtered, takeCount) :
                /\ flash' = started(flash, shuffled)
                /\ localStorage' = saveSession(localStorage, snapshot(shuffled, 0, 0, 0))
        ELSE UNCHANGED <<flash, localStorage>>

\* variant of moveToNext: the in-progress slot is kept when the session ends
moveToNext_keepSlot(fl, knownCount, problemCount) ==
    IF fl.currentIndex < Len(fl.shuffledWords) - 1
    THEN /\ flash' = [fl EXCEPT !.currentIndex = fl.currentIndex + 1]
         /\ localStorage' = saveSession(localStorage,
                snapshot(fl.shuffledWords, fl.currentIndex + 1, knownCount, problemCount))
    ELSE /\ flash' = [fl EXCEPT !.sessionComplete = TRUE]
         /\ localStorage' = saveLastCompletedSession(localStorage,
                    snapshot(fl.shuffledWords, Len(fl.shuffledWords), knownCount, problemCount))

\* variant of moveToNext: the session completes one card late
moveToNext_pastEnd(fl, knownCount, problemCount) ==
    IF fl.currentIndex < Len(fl.shuffledWords)
    THEN /\ flash' = [fl EXCEPT !.currentIndex = fl.currentIndex + 1]
         /\ localStorage' = saveSession(localStorage,
                snapshot(fl.shuffledWords, fl.currentIndex + 1, knownCount, problemCount))
    ELSE /\ flash' = [fl EXCEPT !.sessionComplete = TRUE]
         /\ localStorage' = clearSavedSession(
                saveLastCompletedSession(localStorage,
                    snapshot(fl.shuffledWords, Len(fl.shuffledWords), knownCount, problemCount)))

\* moveToNext(counts), called with the component state fl of the render that
\* follows the store's reload
moveToNext(fl, knownCount, problemCount) ==
    IF fl.currentIndex < Len(fl.shuffledWords) - 1
    THEN /\ flash' = [fl EXCEPT !.currentIndex = fl.currentIndex + 1]
         /\ localStorage' = saveSession(localStorage,
                snapshot(fl.shuffledWords, fl.currentIndex + 1, knownCount, problemCount))
    ELSE /\ flash' = [fl EXCEPT !.sessionComplete = TRUE]
         /\ localStorage' = clearSavedSession(
                saveLastCompletedSession(localStorage,
                    snapshot(fl.shuffledWords, Len(fl.shuffledWords), knownCount, problemCount)))

\* shuffledWords[currentIndex]
currentWord == flash.shuffledWords[flash.currentIndex + 1]

handleKnow ==
    /\ flash.currentIndex < Len(flash.shuffledWords)
    /\ markAsKnown(currentWord)
    /\ moveToNext(rendered([flash EXCEPT !.sessionKnownCount = @ + 1], words'),
                  flash.sessionKnownCount + 1, flash.sessionProblemCount)

handleDontKnow ==
    /\ flash.currentIndex < Len(flash.shuffledWords)
    /\ markAsProblem(currentWord)
    /\ moveToNext(rendered([flash EXCEPT !.sessionProblemCount = @ + 1], words'),
                  flash.sessionKnownCount, flash.sessionProblemCount + 1)

\* handleKnow / handleDontKnow up to their first await: the tally is set and
\* the call waits for the store with the values of the render it closed over
called(outcome) ==
    [outcome      |-> outcome,
     id           |-> currentWord,
     currentIndex |-> flash.currentIndex,
     knownCount   |-> flash.sessionKnownCount + (IF outcome = "know" THEN 1 ELSE 0),
     problemCount |-> flash.sessionProblemCount + (IF outcome = "know" THEN 0 ELSE 1)]

pressKnow ==
    /\ flash.currentIndex < Len(flash.shuffledWords)
    /\ flash' = [flash EXCEPT !.sessionKnownCount = @ + 1,
                              !.inFlight = Append(@, called("know"))]
    /\ UNCHANGED localStorage

pressDontKnow ==
    /\ flash.currentIndex < Len(flash.shuffledWords)
    /\ flash' = [flash EXCEPT !.sessionProblemCount = @ + 1,
                              !.inFlight = Append(@, called("dontKnow"))]
    /\ UNCHANGED localStorage

\* the rest of the handler call i: the store's update ends and moveToNext
\* runs with the cursor of the render the call closed over
settle(i) ==
    LET call == flash.inFlight[i]
        rest == SubSeq(flash.inFlight, 1, i - 1) \o SubSeq(flash.inFlight, i + 1, Len(flash.inFlight))
    IN  /\ IF call.outcome = "know" THEN markAsKnown(call.id) ELSE markAsProblem(call.id)
        /\ moveToNext(rendered([flash EXCEPT !.currentIndex = call.currentIndex,
                                             !.inFlight = rest], words'),
                      call.knownCount, call.problemCount)

backToOptions ==
    /\ flash' = [flash EXCEPT !.sessionStarted      = FALSE,
                              !.sessionComplete     = FALSE,
                              !.currentIndex        = 0,
                              !.sessionKnownCount   = 0,
                              !.sessionProblemCount = 0]
    /\ UNCHANGED localStorage

regenerateCurrentSession ==
    IF Len(flash.shuffledWords) = 0 THEN UNCHANGED <<flash, localStorage>>
    ELSE \E shuffled \in Arrangements(Range(flash.shuffledWords), Len(flash.shuffledWords)) :
            /\ flash' = started(flash, shuffled)
            /\ localStorage' = saveSession(localStorage, snapshot(shuffled, 0, 0, 0))

continueLastSession ==
    /\ IF Len(flash.resumableSession) = 0 THEN UNCHANGED flash
       ELSE flash' = [flash EXCEPT
                !.shuffledWords       = flash.resumableSession[1].words,
                !.currentIndex        = flash.resumableSession[1].currentIndex,
                !.sessionComplete     = FALSE,
                !.sessionKnownCount   = flash.resumableSession[1].knownCount,
                !.sessionProblemCount = flash.resumableSession[1].problemCount,
                !.sessionStarted      = TRUE]
    /\ UNCHANGED localStorage

regenerateLastSession ==
    IF Len(flash.lastCompletedSession) = 0 THEN UNCHANGED <<flash, localStorage>>
    ELSE LET last == flash.lastCompletedSession[1]
         IN  \E shuffled \in Arrangements(Range(last.words), Len(last.words)) :
                /\ flash' = started(
                       [flash EXCEPT
                          !.filterType = last.filterType,
                          !.dateRange  = last.dateRange,
                          !.problemProgressFilter =
                              IF last.filterType # "problem" THEN "all" ELSE @,
                          !.allWordsProgressFilter =
                              IF last.filterType # "all" THEN "all" ELSE @],
                       shuffled)
                /\ localStorage' = saveSession(localStorage,
                       [snapshot(shuffled, 0, 0, 0) EXCEPT !.filterType = last.filterType,
                                                           !.dateRange  = last.dateRange])

\* setFilterType and the effect that resets the bucket of the other filters
setFilterType(filterType) ==
    /\ flash' = [flash EXCEPT
            !.filterType = filterType,
            !.problemProgressFilter  = IF filterType # "problem" THEN "all" ELSE @,
            !.allWordsProgressFilter = "all"]
    /\ UNCHANGED localStorage

setDateRange(days) ==
    /\ flash' = [flash EXCEPT !.dateRange = days]
    /\ UNCHANGED localStorage

setProblemProgressFilter(progressFilter) ==
    /\ flash' = [flash EXCEPT !.problemProgressFilter = progressFilter]
    /\ UNCHANGED localStorage

setAllWordsProgressFilter(progressFilter) ==
    /\ flash' = [flash EXCEPT !.allWordsProgressFilter = progressFilter]
    /\ UNCHANGED localStorage

\* the size input: v has no element when parseInt gives NaN; the effect on
\* [sessionSize] saves the size
setSessionSize(v) ==
    LET size == IF Len(v) = 0 \/ v[1] < 1 THEN 20 ELSE v[1]
    IN  /\ flash' = [flash EXCEPT !.sessionSize = size]
        /\ localStorage' = saveSessionSize(localStorage, size)

\* the component is mounted: state initialisers, the effects of the first
\* render (loadWords, loadStreak, saveSessionSize) and the render after them
mount ==
    /\ ~flash.mounted
    /\ loadStreak
    /\ flash' = rendered([closedFlash EXCEPT !.mounted = TRUE,
                                             !.sessionSize = getSavedSessionSize], words)
    /\ localStorage' = saveSessionSize(localStorage, getSavedSessionSize)

\* the user leaves the flashcards view
unmount ==
    /\ flash.mounted
    /\ flash' = closedFlash
    /\ UNCHANGED localStorage

----------------------------------------------------------------------------
(* The store's calls of the AI gateway. A response has no element when the *)
(* request fails; result keeps what the handler leaves in the store's      *)
(* error and suggestions, or the error it throws.                          *)

\* the outcome of a handler that catches the failure and sets the store's error
errorSet(op, response, message, suggestions) ==
    [op          |-> op,
     failed      |-> Len(response) = 0,
     error       |-> IF Len(response) = 0 THEN <<message>> ELSE <<>>,
     thrown      |-> <<>>,
     suggestions |-> IF Len(response) = 0 THEN <<>> ELSE suggestions]

\* the outcome of a handler that throws a new Error on failure
errorThrown(op, response, message) ==
    [op          |-> op,
     failed      |-> Len(response) = 0,
     error       |-> <<>>,
     thrown      |-> IF Len(response) = 0 THEN <<message>> ELSE <<>>,
     suggestions |-> <<>>]

\* variant of generateWords: the failure is swallowed
generateWords_silent(response) ==
    result' = [errorSet("generateWords", response, "Failed to generate words",
                        IF Len(response) = 0 THEN <<>> ELSE response[1])
                  EXCEPT !.error = <<>>]

generateWords(response) ==
    result' = errorSet("generateWords", response, "Failed to generate words",
                       IF Len(response) = 0 THEN <<>> ELSE response[1])

suggestMeanings(response) ==
    result' = errorSet("suggestMeanings", response, "Failed to get suggestions", response)

analyzeSentence(response) ==
    result' = errorThrown("analyzeSentence", response, "Failed to analyze sentence")

generateContextPrompt(response) ==
    result' = errorThrown("generateContextPrompt", response,
                          "Failed to generate context prompt")

generateScenarios(response) ==
    result' = errorThrown("generateScenarios", response, "Failed to generate scenarios")

----------------------------------------------------------------------------
(* Specifications *)

InitDb ==
    /\ words = EmptyTable
    /\ nextId = 1
    /\ result = [op |-> "none"]
    /\ hist = EmptyTable
    /\ streakData = EmptyTable
    /\ dailyReviewCounts = EmptyTable
    /\ now = 0
    /\ zone \in Zones
    /\ maxCurrentSeen = 0

\* a new installation: nothing in the database, nothing in localStorage
Init ==
    /\ InitDb
    /\ localStorage = EmptyTable
    /\ flash = closedFlash

\* the word specifications do not read the clock: they run in one zone
InitWords == Init /\ zone = Utc

RECURSIVE ReviewsUpTo(_)
ReviewsUpTo(n) ==
    IF n = 0 THEN 0
    ELSE (IF n \in DOMAIN hist THEN Len(hist[n]) ELSE 0) + ReviewsUpTo(n - 1)

TotalReviews == ReviewsUpTo(MaxIds)

\* The word store without reviews: create, bulkCreate, delete
StoreAdd    == \E d \in StoreDrafts : addWord(d) /\ UNCHANGED <<streakVars, clockVars, uiVars>>
StoreBulk   == \E b \in Batches(StoreDrafts) : bulkAddWords(b) /\ UNCHANGED <<streakVars, clockVars, uiVars>>
StoreDelete == \E id \in Ids : deleteWord(id) /\ UNCHANGED <<streakVars, clockVars, uiVars>>

NextStore == StoreAdd \/ StoreBulk \/ StoreDelete

SpecStore == InitWords /\ [][NextStore]_vars

\* Review events on words produced by create / bulkCreate
ReviewAdd     == \E d \in ReviewDrafts : addWord(d) /\ UNCHANGED <<streakVars, clockVars, uiVars>>
ReviewBulk    == \E b \in ReviewBatches : bulkAddWords(b) /\ UNCHANGED <<streakVars, clockVars, uiVars>>
ReviewCorrect == \E id \in Ids : /\ TotalReviews < MaxReviews
                                  /\ incrementCorrectCount(id)
                                  /\ UNCHANGED <<streakVars, clockVars, uiVars>>
ReviewWrong   == \E id \in Ids : /\ TotalReviews < MaxReviews
                                  /\ incrementWrongCount(id)
                                  /\ UNCHANGED <<streakVars, clockVars, uiVars>>

NextReview == ReviewAdd \/ ReviewBulk \/ ReviewCorrect \/ ReviewWrong

SpecReview == InitWords /\ [][NextReview]_vars

\* Every operation on the word table
WordsAdd     == \E d \in ReviewDrafts : /\ nextId <= MaxWordIds
                                        /\ addWord(d)
                                        /\ UNCHANGED <<streakVars, clockVars, uiVars>>
WordsBulk    == \E b \in ReviewBatches : /\ nextId < MaxWordIds
                                         /\ bulkAddWords(b)
                                         /\ UNCHANGED <<streakVars, clockVars, uiVars>>
WordsCorrect == \E id \in Ids : /\ TotalReviews < MaxWordReviews
                                 /\ incrementCorrectCount(id)
                                 /\ UNCHANGED <<streakVars, clockVars, uiVars>>
WordsWrong   == \E id \in Ids : /\ TotalReviews < MaxWordReviews
                                 /\ incrementWrongCount(id)
                                 /\ UNCHANGED <<streakVars, clockVars, uiVars>>
WordsStatus  == \E id \in Ids, st \in Statuses :
                    updateWordStatus(id, st) /\ UNCHANGED <<streakVars, clockVars, uiVars>>
WordsContent == \E id \in Ids, u \in WordUpdates :
                    updateWordContent(id, u) /\ UNCHANGED <<streakVars, clockVars, uiVars>>
WordsDelete  == \E id \in Ids : deleteWord(id) /\ UNCHANGED <<streakVars, clockVars, uiVars>>

NextWords == WordsAdd \/ WordsBulk \/ WordsCorrect \/ WordsWrong
                \/ WordsStatus \/ WordsContent \/ WordsDelete

SpecWords == InitWords /\ [][NextWords]_vars

\* The content of words: create, bulkCreate, updateContent
ContentAdd  == \E d \in ContentDrafts : addWord(d) /\ UNCHANGED <<streakVars, clockVars, uiVars>>
ContentBulk == \E b \in ContentBatches :
                   bulkAddWords(b) /\ UNCHANGED <<streakVars, clockVars, uiVars>>
ContentEdit == \E id \in Ids, u \in ContentUpdates :
                   updateWordContent(id, u) /\ UNCHANGED <<streakVars, clockVars, uiVars>>

NextContent == ContentAdd \/ ContentBulk \/ ContentEdit

SpecContent == InitWords /\ [][NextContent]_vars

\* The store's handlers on stored words, at one reading of the clock
AppSaveWord == \E e \in AppWords : /\ nextId <= MaxWordIds
                                   /\ loadedStreak.reviewsToday < MaxAppReviews
                                   /\ saveWord(e)
                                   /\ UNCHANGED <<clockVars, uiVars>>
AppMarkAsKnown == \E id \in DOMAIN words : /\ loadedStreak.reviewsToday < MaxAppReviews
                                           /\ markAsKnown(id)
                                           /\ UNCHANGED <<clockVars, uiVars>>
AppMarkAsProblem == \E id \in DOMAIN words : /\ loadedStreak.reviewsToday < MaxAppReviews
                                             /\ markAsProblem(id)
                                             /\ UNCHANGED <<clockVars, uiVars>>
AppMarkProblemAsKnown ==
    \E id \in DOMAIN words : /\ loadedStreak.reviewsToday < MaxAppReviews
                             /\ words[id].status = "problem"
                             /\ markProblemAsKnown(id)
                             /\ UNCHANGED <<clockVars, uiVars>>
AppMarkProblemAsStillProblem ==
    \E id \in DOMAIN words : /\ loadedStreak.reviewsToday < MaxAppReviews
                             /\ words[id].status = "problem"
                             /\ markProblemAsStillProblem(id)
                             /\ UNCHANGED <<clockVars, uiVars>>
AppRemoveWord == \E id \in DOMAIN words : removeWord(id) /\ UNCHANGED <<clockVars, uiVars>>
AppEditWordContent == \E id \in DOMAIN words :
                          editWordContent(id, Meanings2) /\ UNCHANGED <<clockVars, uiVars>>
AppImportWords == \E b \in AppBatches : /\ nextId < MaxWordIds
                                        /\ importWords(b)
                                        /\ UNCHANGED <<clockVars, uiVars>>
AppLoadStreak == loadStreak /\ UNCHANGED <<clockVars, uiVars>>

NextApp == AppSaveWord \/ AppMarkAsKnown \/ AppMarkAsProblem \/ AppMarkProblemAsKnown
              \/ AppMarkProblemAsStillProblem \/ AppRemoveWord \/ AppEditWordContent
              \/ AppImportWords \/ AppLoadStreak

SpecApp == InitWords /\ [][NextApp]_vars

\* Every operation on the word table and the store's edit, under a moving clock
FrameEdit == \E id \in DOMAIN words : editWordContent(id, Meanings2) /\ UNCHANGED <<clockVars, uiVars>>
FrameTick == Tick /\ now' <= MaxFrameHour /\ UNCHANGED <<wordVars, streakVars, uiVars>>

FrameAdd     == \E d \in ReviewDrafts : /\ nextId <= MaxFrameIds
                                        /\ addWord(d)
                                        /\ UNCHANGED <<streakVars, clockVars, uiVars>>
FrameBulk    == \E b \in ReviewBatches : /\ nextId < MaxFrameIds
                                         /\ bulkAddWords(b)
                                         /\ UNCHANGED <<streakVars, clockVars, uiVars>>
FrameCorrect == \E id \in DOMAIN words : /\ TotalReviews < MaxFrameReviews
                                 /\ incrementCorrectCount(id)
                                 /\ UNCHANGED <<streakVars, clockVars, uiVars>>
FrameWrong   == \E id \in DOMAIN words : /\ TotalReviews < MaxFrameReviews
                                 /\ incrementWrongCount(id)
                                 /\ UNCHANGED <<streakVars, clockVars, uiVars>>

FrameStatus  == \E id \in DOMAIN words, st \in Statuses :
                    updateWordStatus(id, st) /\ UNCHANGED <<streakVars, clockVars, uiVars>>
FrameContent == \E id \in DOMAIN words, u \in WordUpdates :
                    updateWordContent(id, u) /\ UNCHANGED <<streakVars, clockVars, uiVars>>
FrameDelete  == \E id \in DOMAIN words : deleteWord(id) /\ UNCHANGED <<streakVars, clockVars, uiVars>>

NextFrame == FrameAdd \/ FrameBulk \/ FrameCorrect \/ FrameWrong
                \/ FrameStatus \/ FrameContent \/ FrameDelete \/ FrameEdit \/ FrameTick

SpecFrame == InitWords /\ [][NextFrame]_vars

\* Reading rows of every stored representation
\* the sentence fields of a stored row: none, a legacy exampleSentence
\* (blank or not), a list (empty, [''], blank and empty entries, more than
\* three entries), or both
RowShapes ==
    { EmptyTable,
      [exampleSentence |-> S1], [exampleSentence |-> Blank], [exampleSentence |-> <<>>],
      [exampleSentences |-> <<>>], [exampleSentences |-> << <<>> >>],
      [exampleSentences |-> <<S1>>], [exampleSentences |-> << <<>>, S2, <<>> >>],
      [exampleSentences |-> <<S1, S2, S1, S2>>],
      [exampleSentences |-> <<>>, exampleSentence |-> S2],
      [exampleSentences |-> << <<>> >>, exampleSentence |-> S2] }

storedRow(english, status, shape) ==
    [f \in {"english", "arabicMeanings", "status", "wrongCount", "correctCount",
            "streak", "createdAt", "lastReviewedAt"} \cup DOMAIN shape |->
        CASE f = "english" -> english
          [] f = "arabicMeanings" -> Meanings
          [] f = "status" -> status
          [] f \in {"wrongCount", "correctCount", "streak", "createdAt"} -> 0
          [] f = "lastReviewedAt" -> NoDate
          [] OTHER -> shape[f]]

InitRows ==
    /\ InitDb
    /\ zone = Utc
    /\ localStorage = EmptyTable
    /\ flash = closedFlash

RowsStore == \E e \in {cat_, dog_}, st \in {"new", "problem"}, shape \in RowShapes :
                /\ nextId <= MaxRows
                /\ ~wordExists(e)
                /\ words' = Put(words, nextId, storedRow(e, st, shape))
                /\ nextId' = nextId + 1
                /\ result' = [op |-> "stored"]
                /\ UNCHANGED <<hist, streakVars, clockVars, uiVars>>
RowsAddWord == \E d \in {Draft(cat_, <<>>), Draft(dog_, <<S1, <<>>, S2, S1, S2>>)} :
                /\ nextId <= MaxRows
                /\ addWord(d)
                /\ UNCHANGED <<streakVars, clockVars, uiVars>>
RowsGetAllWords == /\ result' = [op |-> "getAllWords", rows |-> getAllWords]
                   /\ UNCHANGED <<words, nextId, hist, streakVars, clockVars, uiVars>>
RowsGetWordsByStatus == \E st \in Statuses :
                   /\ result' = [op |-> "getWordsByStatus", status |-> st,
                                  rows |-> getWordsByStatus(st)]
                   /\ UNCHANGED <<words, nextId, hist, streakVars, clockVars, uiVars>>

NextRows == RowsStore \/ RowsAddWord \/ RowsGetAllWords \/ RowsGetWordsByStatus

SpecRows == InitRows /\ [][NextRows]_vars

\* The streak tracker under a moving clock
StreakUpdate == updateStreak /\ UNCHANGED <<wordVars, clockVars, uiVars>>
StreakLoad   == getStreakData /\ UNCHANGED <<wordVars, clockVars, uiVars>>
StreakTick   == Tick /\ UNCHANGED <<wordVars, streakVars, uiVars>>

NextStreak == StreakUpdate \/ StreakLoad \/ StreakTick

SpecStreak == Init /\ [][NextStreak]_vars

\* The range query next to reviews under a moving clock
InitRange ==
    /\ words = EmptyTable
    /\ nextId = 1
    /\ result = [op |-> "none"]
    /\ hist = EmptyTable
    /\ streakData = EmptyTable
    /\ dailyReviewCounts = EmptyTable
    /\ now = 0
    /\ zone \in RangeZones
    /\ maxCurrentSeen = 0
    /\ localStorage = EmptyTable
    /\ flash = closedFlash

RangeUpdate == /\ countedToday(loadedStreak) <= MaxRangeReviews
               /\ updateStreak
               /\ UNCHANGED <<wordVars, clockVars, uiVars>>
RangeTick   == Tick /\ UNCHANGED <<wordVars, streakVars, uiVars>>
RangeQuery  == \E startDate, endDate \in RangeDates :
                   /\ getReviewCountsByDateRange(startDate, endDate)
                   /\ UNCHANGED <<streakVars, clockVars, uiVars>>

NextRange == RangeUpdate \/ RangeTick \/ RangeQuery

SpecRange == InitRange /\ [][NextRange]_vars

\* The session filter on words with any counters
BucketFilter == \E c \in 0..MaxAnswers : \E w \in 0..(MaxAnswers - c) :
                    filterByProgress(c, w) /\ UNCHANGED <<streakVars, clockVars, uiVars>>

NextBuckets == BucketFilter

SpecBuckets == InitWords /\ [][NextBuckets]_vars

\* The storage functions on their own, over whatever the two keys may hold
StoredSessions ==
    { PlainText(<<>>), PlainText(<<"{">>),
      JsonText(JNull), JsonText(JNum(3)), JsonText(JArr(<<1>>)),
      JsonText(JObj([currentIndex |-> JNum(0)])),
      JsonText(JObj([wordIds |-> JStr("a"), currentIndex |-> JNum(0)])),
      JsonText(JObj([wordIds |-> JArr(<<1, 2>>)])),
      JsonText(JObj([wordIds |-> JArr(<<1, 2>>), currentIndex |-> JStr("1")])),
      JsonText(JObj([wordIds |-> JArr(<<1, 2>>), currentIndex |-> JNum(1)])),
      JsonText(JObj([wordIds |-> JArr(<<1, 2>>), currentIndex |-> JNum(1),
                     filterType |-> JNull, dateRange |-> JStr("7"),
                     savedAt |-> JNum(5), knownCount |-> JNull,
                     problemCount |-> JStr("2")])),
      JsonText(JObj([wordIds |-> JArr(<<1, 2>>), currentIndex |-> JNum(1),
                     filterType |-> JNum(7)])),
      JsonText(JObj([wordIds |-> JArr(<<2, 1>>), currentIndex |-> JNum(1),
                     filterType |-> JStr("date"), dateRange |-> JNum(7),
                     savedAt |-> JDate(0), knownCount |-> JNum(1),
                     problemCount |-> JNum(0)])) }

StoredSizes ==
    { PlainText(<<>>), PlainText(<<"a", "b">>), PlainText(<<"0">>),
      PlainText(<<"-", "3">>), PlainText(<<"7">>), PlainText(<<"2", "0">>) }

SessionsToSave ==
    { [wordIds |-> ids, currentIndex |-> i, filterType |-> "new", dateRange |-> 30,
       savedAt |-> 0, knownCount |-> k, problemCount |-> 0] :
          ids \in {<<1>>, <<2, 1>>}, i \in 0..1, k \in 0..1 }

SizesToSave == {-1, 0, 1, 9, 10} \cup {MaxSize}

InitStorage ==
    /\ InitDb
    /\ zone = Utc
    /\ flash = closedFlash
    /\ \E sessionKeys \in SUBSET {STORAGE_KEY}, sizeKeys \in SUBSET {SESSION_SIZE_KEY} :
         \E session \in StoredSessions, size \in StoredSizes :
            localStorage = [k \in sessionKeys \cup sizeKeys |->
                               IF k = STORAGE_KEY THEN session ELSE size]

GetSavedSession ==
    /\ result' = [op |-> "getSavedSession", session |-> getSavedSession]
    /\ UNCHANGED localStorage

SaveSession(session) ==
    /\ localStorage' = saveSession(localStorage, session)
    /\ result' = [op |-> "saveSession"]

SaveLastCompletedSession(session) ==
    /\ localStorage' = saveLastCompletedSession(localStorage, session)
    /\ result' = [op |-> "saveLastCompletedSession"]

ClearSavedSession ==
    /\ localStorage' = clearSavedSession(localStorage)
    /\ result' = [op |-> "clearSavedSession"]

GetSavedSessionSize ==
    /\ result' = [op |-> "getSavedSessionSize", size |-> getSavedSessionSize]
    /\ UNCHANGED localStorage

SaveSessionSize(size) ==
    /\ localStorage' = saveSessionSize(localStorage, size)
    /\ result' = [op |-> "saveSessionSize", size |-> size]

NextStorage ==
    /\ \/ GetSavedSession
       \/ \E session \in SessionsToSave : SaveSession(session)
       \/ \E session \in SessionsToSave : SaveLastCompletedSession(session)
       \/ ClearSavedSession
       \/ GetSavedSessionSize
       \/ \E size \in SizesToSave : SaveSessionSize(size)
    /\ UNCHANGED <<words, nextId, hist, streakVars, clockVars, flash>>

SpecStorage == InitStorage /\ [][NextStorage]_vars

\* The pool of the flashcards view: both words are imported at once
SessionBatches == { <<Draft(cat_, <<>>), Draft(dog_, <<>>)>> }

SessionDateRanges == {0, 2}

SessionSizes == { <<>>, <<0>>, <<1>>, <<2>> }

uiFrame == UNCHANGED <<wordVars, streakVars, clockVars>>

\* The options screen of the flashcards view, over a pool that is imported
\* and reviewed in the other views while the component is not mounted
OptionsImportWords ==
    /\ ~flash.mounted
    /\ \E b \in SessionBatches : nextId < MaxWordIds /\ importWords(b)
    /\ UNCHANGED <<clockVars, uiVars>>

OptionsMarkAsKnown ==
    /\ ~flash.mounted /\ loadedStreak.reviewsToday < MaxOptionReviews
    /\ \E id \in DOMAIN words : markAsKnown(id)
    /\ UNCHANGED <<clockVars, uiVars>>

OptionsMarkAsProblem ==
    /\ ~flash.mounted /\ loadedStreak.reviewsToday < MaxOptionReviews
    /\ \E id \in DOMAIN words : markAsProblem(id)
    /\ UNCHANGED <<clockVars, uiVars>>

OptionsMount == mount /\ UNCHANGED clockVars

OptionsUnmount == unmount /\ uiFrame

OptionsSetFilterType ==
    optionsScreen /\ (\E filterType \in FilterTypes : setFilterType(filterType)) /\ uiFrame

OptionsSetDateRange ==
    /\ optionsScreen /\ flash.filterType = "date"
    /\ \E days \in SessionDateRanges : setDateRange(days)
    /\ uiFrame

OptionsSetProblemProgressFilter ==
    /\ optionsScreen /\ flash.filterType = "problem"
    /\ \E progressFilter \in ProgressFilters : setProblemProgressFilter(progressFilter)
    /\ uiFrame

OptionsSetAllWordsProgressFilter ==
    /\ optionsScreen /\ flash.filterType = "all"
    /\ \E progressFilter \in ProgressFilters : setAllWordsProgressFilter(progressFilter)
    /\ uiFrame

OptionsSetSessionSize ==
    optionsScreen /\ (\E v \in SessionSizes : setSessionSize(v)) /\ uiFrame

\* the start button is disabled while getSelectedFilterCount() is 0
OptionsStart == optionsScreen /\ getSelectedFilterCount # 0 /\ startSession /\ uiFrame

OptionsBackToOptions == cardScreen /\ backToOptions /\ uiFrame

NextOptions ==
    OptionsImportWords \/ OptionsMarkAsKnown \/ OptionsMarkAsProblem \/ OptionsMount
        \/ OptionsUnmount \/ OptionsSetFilterType \/ OptionsSetDateRange
        \/ OptionsSetProblemProgressFilter \/ OptionsSetAllWordsProgressFilter
        \/ OptionsSetSessionSize \/ OptionsStart \/ OptionsBackToOptions

SpecOptions == InitWords /\ [][NextOptions]_vars

\* A session of the flashcards view with the options left as they are, over a
\* pool that is imported and pruned while the component is not mounted
SessionImportWords ==
    /\ ~flash.mounted
    /\ \E b \in SessionBatches : nextId < MaxWordIds /\ importWords(b)
    /\ UNCHANGED <<clockVars, uiVars>>

SessionRemoveWord ==
    /\ ~flash.mounted
    /\ \E id \in DOMAIN words : removeWord(id)
    /\ UNCHANGED <<clockVars, uiVars>>

SessionMount == mount /\ UNCHANGED clockVars

SessionUnmount == unmount /\ uiFrame

SessionStart == optionsScreen /\ getSelectedFilterCount # 0 /\ startSession /\ uiFrame

\* the button is rendered when resumableSession is not null
SessionContinueLast ==
    optionsScreen /\ Len(flash.resumableSession) # 0 /\ continueLastSession /\ uiFrame

\* the button is rendered when lastCompletedSession is not null
SessionRegenerateLast ==
    optionsScreen /\ Len(flash.lastCompletedSession) # 0 /\ regenerateLastSession /\ uiFrame

SessionKnow ==
    /\ cardScreen /\ loadedStreak.reviewsToday < MaxSessionReviews
    /\ handleKnow
    /\ UNCHANGED clockVars

SessionDontKnow ==
    /\ cardScreen /\ loadedStreak.reviewsToday < MaxSessionReviews
    /\ handleDontKnow
    /\ UNCHANGED clockVars

SessionBackToOptions == cardScreen /\ backToOptions /\ uiFrame

SessionRegenerateCurrent == completeScreen /\ regenerateCurrentSession /\ uiFrame

NextSession ==
    SessionImportWords \/ SessionRemoveWord \/ SessionMount \/ SessionUnmount
        \/ SessionStart \/ SessionContinueLast \/ SessionRegenerateLast \/ SessionKnow
        \/ SessionDontKnow \/ SessionBackToOptions \/ SessionRegenerateCurrent

SpecSession == InitWords /\ [][NextSession]_vars

\* One session in which a key can be pressed again while earlier handler
\* calls still wait for the store
KeysImportWords ==
    /\ ~flash.mounted /\ nextId = 1
    /\ \E b \in SessionBatches : importWords(b)
    /\ UNCHANGED <<clockVars, uiVars>>

KeysMount == nextId > 1 /\ mount /\ UNCHANGED clockVars

KeysStart == optionsScreen /\ getSelectedFilterCount # 0 /\ startSession /\ uiFrame

\* the keydown listener is attached while sessionStarted && !sessionComplete
KeysPressKnow ==
    cardScreen /\ Len(flash.inFlight) < MaxInFlight /\ pressKnow /\ uiFrame

KeysPressDontKnow ==
    cardScreen /\ Len(flash.inFlight) < MaxInFlight /\ pressDontKnow /\ uiFrame

KeysSettle == \E i \in 1..Len(flash.inFlight) : settle(i) /\ UNCHANGED clockVars

NextKeys == KeysImportWords \/ KeysMount \/ KeysStart \/ KeysPressKnow
                \/ KeysPressDontKnow \/ KeysSettle

SpecKeys == InitWords /\ [][NextKeys]_vars

\* Review operations of the store in flight at once: each await of
\* incrementCorrectCount / incrementWrongCount and updateStreak is a step of
\* its own; result holds the calls in flight with what each has read
\* the state after n sequential Correct reviews of one created word
RECURSIVE wordAfter(_)
wordAfter(n) ==
    IF n = 0 THEN newWord(Draft(cat_, <<S1>>), <<S1>>)
    ELSE LET before == wordAfter(n - 1) IN correctUpdate(before)

RECURSIVE streakAfter(_)
streakAfter(n) ==
    IF n = 0 THEN zeroStreak
    ELSE LET before == streakAfter(n - 1) IN updatedStreak(before)

RaceStarts == {0, DAILY_QUOTA - 2}

InitRace ==
    /\ now = 0
    /\ zone = Utc
    /\ \E n \in RaceStarts :
          /\ words = Put(EmptyTable, 1, wordAfter(n))
          /\ hist = Put(EmptyTable, 1, [i \in 1..n |-> "correct"])
          /\ streakData = Put(EmptyTable, STREAK_ID, streakAfter(n))
          /\ dailyReviewCounts = IF n = 0 THEN EmptyTable ELSE Put(EmptyTable, today, n)
          /\ maxCurrentSeen = streakAfter(n).currentStreak
    /\ nextId = 2
    /\ result = [op |-> "reviews", calls |-> <<>>, begun |-> 0, failed |-> FALSE]
    /\ localStorage = EmptyTable
    /\ flash = closedFlash

\* the calls in flight with call i replaced by c, or removed when c is <<>>
callsWith(i, c) ==
    SubSeq(result.calls, 1, i - 1) \o c \o SubSeq(result.calls, i + 1, Len(result.calls))

\* markAsKnown(id) / markAsProblem(id) is called
RaceBegin ==
    \E id \in DOMAIN words, outcome \in {"correct", "wrong"} :
        /\ Len(result.calls) < MaxRaceCalls
        /\ result.begun < MaxRaceReviews
        /\ result' = [result EXCEPT
                !.calls = Append(@, [outcome |-> outcome, id |-> id, pc |-> "getWord",
                                     word |-> <<>>, streak |-> <<>>, row |-> <<>>]),
                !.begun = @ + 1]
        /\ hist' = [hist EXCEPT ![id] = Append(@, outcome)]
        /\ UNCHANGED <<words, nextId, streakVars, clockVars, uiVars>>

\* const word = await db.words.get(id)
RaceGetWord ==
    \E i \in 1..Len(result.calls) :
        LET c == result.calls[i]
        IN  /\ c.pc = "getWord"
            /\ result' = [result EXCEPT !.calls =
                    callsWith(i, <<[c EXCEPT !.word = <<words[c.id]>>, !.pc = "updateWord"]>>)]
            /\ UNCHANGED <<words, nextId, hist, streakVars, clockVars, uiVars>>

\* await db.words.update(id, {correctCount, wrongCount, status, streak, lastReviewedAt})
RaceUpdateWord ==
    \E i \in 1..Len(result.calls) :
        LET c == result.calls[i]
            u == IF c.outcome = "correct" THEN correctUpdate(c.word[1]) ELSE wrongUpdate(c.word[1])
        IN  /\ c.pc = "updateWord"
            /\ words' = [words EXCEPT ![c.id] =
                    [@ EXCEPT !.correctCount = u.correctCount, !.wrongCount = u.wrongCount,
                              !.status = u.status, !.streak = u.streak,
                              !.lastReviewedAt = u.lastReviewedAt]]
            /\ result' = [result EXCEPT !.calls = callsWith(i, <<[c EXCEPT !.pc = "getStreak"]>>)]
            /\ UNCHANGED <<nextId, hist, streakVars, clockVars, uiVars>>

\* updateStreak: const streak = await getStreakData()
RaceGetStreak ==
    \E i \in 1..Len(result.calls) :
        LET c == result.calls[i]
        IN  /\ c.pc = "getStreak"
            /\ result' = [result EXCEPT !.calls =
                    callsWith(i, <<[c EXCEPT !.streak = <<loadedStreak>>, !.pc = "getRow"]>>)]
            /\ UNCHANGED <<words, nextId, hist, streakVars, clockVars, uiVars>>

\* incrementDailyReviewCount: const row = await db.dailyReviewCounts.get(date)
RaceGetRow ==
    \E i \in 1..Len(result.calls) :
        LET c == result.calls[i]
            row == IF today \in DOMAIN dailyReviewCounts THEN <<dailyReviewCounts[today]>> ELSE <<>>
        IN  /\ c.pc = "getRow"
            /\ result' = [result EXCEPT !.calls =
                    callsWith(i, <<[c EXCEPT !.row = row, !.pc = "writeRow"]>>)]
            /\ UNCHANGED <<words, nextId, hist, streakVars, clockVars, uiVars>>

\* incrementDailyReviewCount: update(date, {count: row.count + 1}), or
\* add({date, count: 1}), which is rejected when the key exists by now; the
\* store's catch then ends the call
RaceWriteRow ==
    \E i \in 1..Len(result.calls) :
        LET c == result.calls[i]
        IN  /\ c.pc = "writeRow"
            /\ IF c.row # <<>>
               THEN /\ dailyReviewCounts' = [dailyReviewCounts EXCEPT ![today] = c.row[1] + 1]
                    /\ result' = [result EXCEPT !.calls = callsWith(i, <<[c EXCEPT !.pc = "putStreak"]>>)]
               ELSE IF today \in DOMAIN dailyReviewCounts
               THEN /\ result' = [result EXCEPT !.calls = callsWith(i, <<>>), !.failed = TRUE]
                    /\ UNCHANGED dailyReviewCounts
               ELSE /\ dailyReviewCounts' = Put(dailyReviewCounts, today, 1)
                    /\ result' = [result EXCEPT !.calls = callsWith(i, <<[c EXCEPT !.pc = "putStreak"]>>)]
            /\ UNCHANGED <<words, nextId, hist, streakData, maxCurrentSeen, clockVars, uiVars>>

\* updateStreak: await db.streakData.put(updatedStreak)
RacePutStreak ==
    \E i \in 1..Len(result.calls) :
        LET c == result.calls[i]
        IN  /\ c.pc = "putStreak"
            /\ streakData' = Put(streakData, STREAK_ID, updatedStreak(c.streak[1]))
            /\ maxCurrentSeen' = Max(maxCurrentSeen, updatedStreak(c.streak[1]).currentStreak)
            /\ result' = [result EXCEPT !.calls = callsWith(i, <<>>)]
            /\ UNCHANGED <<words, nextId, hist, dailyReviewCounts, clockVars, uiVars>>

NextRace == RaceBegin \/ RaceGetWord \/ RaceUpdateWord \/ RaceGetStreak \/ RaceGetRow
                \/ RaceWriteRow \/ RacePutStreak

SpecRace == InitRace /\ [][NextRace]_vars

\* A session of three words that is interrupted by leaving the view and
\* resumed after words were deleted in another view
ResumeBatches == { <<Draft(cat_, <<>>), Draft(dog_, <<>>), Draft(<<"e", "w", "e">>, <<>>)>> }

ResumeImportWords ==
    /\ ~flash.mounted /\ nextId = 1
    /\ \E b \in ResumeBatches : importWords(b)
    /\ UNCHANGED <<clockVars, uiVars>>

ResumeRemoveWord ==
    /\ ~flash.mounted
    /\ \E id \in DOMAIN words : removeWord(id)
    /\ UNCHANGED <<clockVars, uiVars>>

ResumeMount == mount /\ UNCHANGED clockVars

ResumeUnmount == unmount /\ uiFrame

ResumeStart == optionsScreen /\ getSelectedFilterCount # 0 /\ startSession /\ uiFrame

ResumeContinueLast ==
    optionsScreen /\ Len(flash.resumableSession) # 0 /\ continueLastSession /\ uiFrame

ResumeKnow ==
    /\ cardScreen /\ loadedStreak.reviewsToday < MaxResumeReviews
    /\ handleKnow
    /\ UNCHANGED clockVars

ResumeDontKnow ==
    /\ cardScreen /\ loadedStreak.reviewsToday < MaxResumeReviews
    /\ handleDontKnow
    /\ UNCHANGED clockVars

NextResume ==
    ResumeImportWords \/ ResumeRemoveWord \/ ResumeMount \/ ResumeUnmount
        \/ ResumeStart \/ ResumeContinueLast \/ ResumeKnow \/ ResumeDontKnow

SpecResume == InitWords /\ [][NextResume]_vars

\* The by-date filter over words saved at different hours, in every zone
ByDateRanges == {0, 2, 7}

ByDateSaveWord ==
    /\ \E e \in AppWords : nextId <= MaxWordIds /\ saveWord(e)
    /\ UNCHANGED <<clockVars, uiVars>>

ByDateFilterWords ==
    /\ \E dateRange \in ByDateRanges :
          result' = [op        |-> "filterWords",
                     now       |-> now,
                     dateRange |-> dateRange,
                     kept      |-> filterWords(now, "date", dateRange, "all")]
    /\ UNCHANGED <<words, nextId, hist, streakVars, clockVars, uiVars>>

ByDateTick == Tick /\ UNCHANGED <<wordVars, streakVars, uiVars>>

NextByDate == ByDateSaveWord \/ ByDateFilterWords \/ ByDateTick

SpecByDate == Init /\ [][NextByDate]_vars

\* The gateway calls beside the flashcards view
Responses == { <<>>, << <<cat_>> >> }

gatewayFrame == UNCHANGED <<words, nextId, hist, streakVars, clockVars, uiVars>>

GatewayGenerateWords == (\E response \in Responses : generateWords(response)) /\ gatewayFrame

GatewaySuggestMeanings ==
    (\E response \in Responses : suggestMeanings(response)) /\ gatewayFrame

GatewayAnalyzeSentence ==
    (\E response \in Responses : analyzeSentence(response)) /\ gatewayFrame

GatewayGenerateContextPrompt ==
    (\E response \in Responses : generateContextPrompt(response)) /\ gatewayFrame

GatewayGenerateScenarios ==
    (\E response \in Responses : generateScenarios(response)) /\ gatewayFrame

NextGateway ==
    NextSession \/ GatewayGenerateWords \/ GatewaySuggestMeanings \/ GatewayAnalyzeSentence
        \/ GatewayGenerateContextPrompt \/ GatewayGenerateScenarios

SpecGateway == InitWords /\ [][NextGateway]_vars

\* The store's handlers called with any id, stored or not
AnyIdImportWords ==
    /\ \E b \in SessionBatches : nextId < MaxWordIds /\ importWords(b)
    /\ UNCHANGED <<clockVars, uiVars>>

AnyIdMarkAsKnown ==
    /\ loadedStreak.reviewsToday < MaxAppReviews
    /\ \E id \in Ids : markAsKnown(id)
    /\ UNCHANGED <<clockVars, uiVars>>

AnyIdMarkAsProblem ==
    /\ loadedStreak.reviewsToday < MaxAppReviews
    /\ \E id \in Ids : markAsProblem(id)
    /\ UNCHANGED <<clockVars, uiVars>>

AnyIdMarkProblemAsKnown ==
    /\ loadedStreak.reviewsToday < MaxAppReviews
    /\ \E id \in Ids : markProblemAsKnown(id)
    /\ UNCHANGED <<clockVars, uiVars>>

AnyIdMarkProblemAsStillProblem ==
    /\ loadedStreak.reviewsToday < MaxAppReviews
    /\ \E id \in Ids : markProblemAsStillProblem(id)
    /\ UNCHANGED <<clockVars, uiVars>>

AnyIdRemoveWord == (\E id \in Ids : removeWord(id)) /\ UNCHANGED <<clockVars, uiVars>>

AnyIdEditWordContent ==
    (\E id \in Ids : editWordContent(id, Meanings2)) /\ UNCHANGED <<clockVars, uiVars>>

NextAnyId ==
    AnyIdImportWords \/ AnyIdMarkAsKnown \/ AnyIdMarkAsProblem \/ AnyIdMarkProblemAsKnown
        \/ AnyIdMarkProblemAsStillProblem \/ AnyIdRemoveWord \/ AnyIdEditWordContent

SpecAnyId == InitWords /\ [][NextAnyId]_vars

\* Everything together
Next == NextStore \/ NextReview \/ NextStreak \/ NextWords \/ NextContent
            \/ NextApp \/ NextRange \/ NextBuckets \/ NextStorage
            \/ NextOptions \/ NextSession \/ NextByDate \/ NextGateway \/ NextAnyId

Spec == Init /\ [][Next]_vars

----------------------------------------------------------------------------
(* Properties of the review outcome engine (SpecReview) *)

\* the transition table of the review state machine, as tabulated
Tabulated(status, streak, event) ==
    IF event = "wrong" THEN <<"problem", 0>>
    ELSE CASE status = "new"     -> <<"known", 0>>
           [] status = "known"   -> <<"known", 0>>
           [] status = "problem" -> IF streak + 1 >= 3 THEN <<"known", 0>>
                                    ELSE <<"problem", streak + 1>>

\* a review event was applied to the stored word id in this step
Reviewed(id) == id \in DOMAIN words /\ id \in DOMAIN words' /\ hist'[id] # hist[id]

RECURSIVE Count(_, _)
Count(h, e) == IF h = <<>> THEN 0
               ELSE (IF Head(h) = e THEN 1 ELSE 0) + Count(Tail(h), e)

\* length of the run of Corrects at the end of h
RECURSIVE Run(_)
Run(h) == IF h = <<>> \/ Last(h) = "wrong" THEN 0
          ELSE 1 + Run(SubSeq(h, 1, Len(h) - 1))

EndsWith(h, suffix) ==
    Len(h) >= Len(suffix) /\ SubSeq(h, Len(h) - Len(suffix) + 1, Len(h)) = suffix

\* C1: one review event on a stored word takes its (status, streak) to
\* exactly the pair the transition table gives for the event.
C1_TransitionTable ==
    [][\A id \in Ids : Reviewed(id) =>
          <<words'[id].status, words'[id].streak>>
            = Tabulated(words[id].status, words[id].streak, Last(hist'[id]))]_vars

\* a problem word with streak 2 answered correctly has become known, and a
\* known word answered wrongly has become a problem word
C1_Witness ==
    /\ \E id \in DOMAIN words :
          /\ hist[id] = <<"wrong", "correct", "correct", "correct">>
          /\ words[id].status = "known" /\ words[id].streak = 0
    /\ \E id \in DOMAIN words :
          /\ hist[id] = <<"correct", "wrong">>
          /\ words[id].status = "problem" /\ words[id].streak = 0

\* C2: after any sequence of Correct and Wrong events on words made by
\* create / bulkCreate, a known or new word has streak 0.
C2_NoStreakUnlessProblem ==
    \A id \in DOMAIN words :
        words[id].status \in {"known", "new"} => words[id].streak = 0

\* a word promoted from problem (its streak had reached 2) is known
C2_Witness ==
    \E id \in DOMAIN words :
        /\ EndsWith(hist[id], <<"wrong", "correct", "correct", "correct">>)
        /\ words[id].status = "known"

\* C3: a problem word becomes known only at the third Correct of an unbroken
\* run of Corrects since its last Wrong; while it is a problem word its streak
\* is the length of that run, so a Wrong resets it, and two Corrects, a Wrong
\* and two Corrects leave a problem word in problem with streak 2.
C3_PromotionAtThirdCorrect ==
    [][\A id \in Ids :
          /\ (Reviewed(id) /\ words[id].status = "problem" /\ words'[id].status = "known")
                => (Run(hist'[id]) = 3 /\ Count(hist'[id], "wrong") >= 1)
          /\ (Reviewed(id) /\ words[id].status = "problem" /\ Run(hist'[id]) = 3)
                => words'[id].status = "known"
          /\ (id \in DOMAIN words' /\ words'[id].status = "problem")
                => (words'[id].streak = Run(hist'[id]) /\ Run(hist'[id]) < 3)
          /\ (id \in DOMAIN words'
               /\ \E n \in 1..Len(hist'[id]) :
                     /\ SubSeq(hist'[id], n, Len(hist'[id]))
                          = <<"correct", "correct", "wrong", "correct", "correct">>
                     /\ n > 1 /\ Run(SubSeq(hist'[id], 1, n - 1)) < 3
                     /\ Count(SubSeq(hist'[id], 1, n - 1), "wrong") >= 1)
                => (words'[id].status = "problem" /\ words'[id].streak = 2)
      ]_vars

\* a problem word that got two Corrects, one Wrong and two Corrects
C3_Witness ==
    \E id \in DOMAIN words :
        /\ hist[id] = <<"wrong", "correct", "correct", "wrong", "correct", "correct">>
        /\ words[id].status = "problem" /\ words[id].streak = 2

\* C4: each review event on a stored word adds exactly 1 to the counter of
\* its kind and leaves the other counter alone, so the counters of a word
\* equal the numbers of Corrects and Wrongs applied to it.
C4_LifetimeCounters ==
    [][\A id \in Ids :
          /\ Reviewed(id) =>
                /\ words'[id].correctCount = words[id].correctCount
                      + (IF Last(hist'[id]) = "correct" THEN 1 ELSE 0)
                /\ words'[id].wrongCount = words[id].wrongCount
                      + (IF Last(hist'[id]) = "wrong" THEN 1 ELSE 0)
          /\ id \in DOMAIN words' =>
                /\ words'[id].correctCount = Count(hist'[id], "correct")
                /\ words'[id].wrongCount = Count(hist'[id], "wrong")
                /\ words'[id].correctCount + words'[id].wrongCount = Len(hist'[id])
      ]_vars

\* a word that went new -> problem -> known -> problem, counters at 3 and 2
C4_Witness ==
    \E id \in DOMAIN words :
        /\ hist[id] = <<"wrong", "correct", "correct", "correct", "wrong">>
        /\ words[id].correctCount = 3 /\ words[id].wrongCount = 2
        /\ words[id].status = "problem"

----------------------------------------------------------------------------
(* Properties of the streak tracker (SpecStreak) *)

\* this step is one review counted by updateStreak
Counted == dailyReviewCounts' # dailyReviewCounts

CountOn(date) == IF date \in DOMAIN dailyReviewCounts THEN dailyReviewCounts[date] ELSE 0

StreakFieldsUnchanged ==
    /\ loadedStreak'.currentStreak = loadedStreak.currentStreak
    /\ loadedStreak'.longestStreak = loadedStreak.longestStreak
    /\ loadedStreak'.lastActivityDate = loadedStreak.lastActivityDate

\* C5: within a day currentStreak, longestStreak and lastActivityDate are
\* written by exactly one review, the one that takes reviewsToday from 19 to
\* 20 (the 20th counted that day), and that review moves lastActivityDate to
\* today; every other review, and every other step, leaves all three
\* unchanged.
C5_OncePerDay ==
    [][IF Counted /\ CountOn(today)' = 20
       THEN /\ loadedStreak.reviewsDate = today /\ loadedStreak.reviewsToday = 19
            /\ loadedStreak'.reviewsToday = 20
            /\ loadedStreak'.lastActivityDate = today
            /\ loadedStreak'.lastActivityDate # loadedStreak.lastActivityDate
       ELSE StreakFieldsUnchanged]_vars

\* the 21st review of a day on which the quota raised the streak to 2
C5_Witness ==
    /\ loadedStreak.reviewsToday = 21 /\ loadedStreak.reviewsDate = today
    /\ loadedStreak.lastActivityDate = today
    /\ loadedStreak.currentStreak = 2

\* number of consecutive days, ending at day d, on which the quota was reached
RECURSIVE QuotaRun(_)
QuotaRun(d) ==
    IF d >= 0 /\ CountOn(<<d>>) >= 20 THEN 1 + QuotaRun(d - 1) ELSE 0

ConsecutiveQuotaDays ==
    IF loadedStreak.lastActivityDate = EmptyDate THEN 0
    ELSE QuotaRun(DayOf(loadedStreak.lastActivityDate))

\* C6: the review that reaches the quota on day T makes currentStreak its
\* previous value + 1 when lastActivityDate is the day before T and 1 in
\* every other case, so currentStreak is always the number of consecutive
\* quota-reached days ending at lastActivityDate.
C6_ConsecutiveDays ==
    [][/\ (Counted /\ loadedStreak'.reviewsToday = 20) =>
             loadedStreak'.currentStreak =
                IF loadedStreak.lastActivityDate = <<DayOf(today) - 1>>
                THEN loadedStreak.currentStreak + 1
                ELSE 1
       /\ loadedStreak'.currentStreak = ConsecutiveQuotaDays'
      ]_vars

\* C7: the first review on a day other than reviewsDate leaves reviewsDate =
\* today and reviewsToday = 1 whatever the earlier count was; a review on
\* the day of reviewsDate adds exactly 1 to reviewsToday.
C7_DailyRollover ==
    [][Counted =>
         /\ loadedStreak'.reviewsDate = today
         /\ loadedStreak'.reviewsToday =
               IF loadedStreak.reviewsDate = today
               THEN loadedStreak.reviewsToday + 1
               ELSE 1]_vars

\* the first review of day 1 after a day 0 with 21 reviews
C7_Witness ==
    /\ loadedStreak.reviewsDate = <<1>> /\ loadedStreak.reviewsToday = 1
    /\ CountOn(<<0>>) = 21

LastActivityCount == CountOn(loadedStreak.lastActivityDate)

\* C8 as stated: lastActivityDate is empty or a day with at least 20 counted
\* reviews, and lastActivityDate = reviewsDate implies reviewsToday >= 20.
C8_AsStated ==
    STREAK_ID \in DOMAIN streakData =>
        LET s == streakData[STREAK_ID]
        IN  /\ s.lastActivityDate = EmptyDate \/ CountOn(s.lastActivityDate) >= 20
            /\ s.lastActivityDate = s.reviewsDate => s.reviewsToday >= 20

\* C8 (amended): lastActivityDate is written only by the quota-reaching
\* review, which sets it to that day; it is empty or a day with at least 20
\* counted reviews, and when it is not empty and equals reviewsDate then
\* reviewsToday >= 20.
C8_LastActivityDate ==
    [][/\ loadedStreak'.lastActivityDate # loadedStreak.lastActivityDate =>
             /\ Counted /\ loadedStreak'.reviewsToday = 20
             /\ loadedStreak'.lastActivityDate = today
       /\ loadedStreak'.lastActivityDate = EmptyDate \/ LastActivityCount' >= 20
       /\ (loadedStreak'.lastActivityDate # EmptyDate
            /\ loadedStreak'.lastActivityDate = loadedStreak'.reviewsDate)
             => loadedStreak'.reviewsToday >= 20
      ]_vars

\* the quota was reached on day 0 and reviews go on during day 1
C8_Witness ==
    /\ loadedStreak.lastActivityDate = <<0>>
    /\ loadedStreak.reviewsDate = <<1>> /\ loadedStreak.reviewsToday = 5

\* C9: longestStreak >= currentStreak, longestStreak never decreases, and
\* longestStreak is the largest value currentStreak has ever held.
C9_LongestStreak ==
    [][/\ loadedStreak'.longestStreak >= loadedStreak'.currentStreak
       /\ loadedStreak'.longestStreak >= loadedStreak.longestStreak
       /\ loadedStreak'.longestStreak = maxCurrentSeen'
      ]_vars

\* the streak was 2 and has been reset to 1
C9_Witness ==
    /\ loadedStreak.longestStreak = 2
    /\ loadedStreak.currentStreak = 1

----------------------------------------------------------------------------
(* Properties of the word store (SpecStore) *)

SameIgnoringCase(a, b) ==
    /\ Len(a) = Len(b)
    /\ \A i \in 1..Len(a) : LowerChar(a[i]) = LowerChar(b[i])

\* C10: no two stored words have english strings equal ignoring case, and
\* a create whose english matches a stored word ignoring case reports a
\* duplicate and adds nothing.
C10_CaseInsensitiveUnique ==
    [][/\ \A a, b \in DOMAIN words' :
             a # b => ~SameIgnoringCase(words'[a].english, words'[b].english)
       /\ \A d \in StoreDrafts :
             (addWord(d) /\ \E id \in DOMAIN words :
                              SameIgnoringCase(words[id].english, d.english))
               => (result'.isDuplicate /\ result'.id = NullId /\ words' = words)
      ]_vars

\* "cat" was offered while "Cat" was stored, and was reported a duplicate
C10_Witness ==
    /\ result.op = "addWord" /\ result.isDuplicate /\ result.english = cat_
    /\ \E id \in DOMAIN words : words[id].english = Cat_
    /\ Cardinality(DOMAIN words) = 2

\* positions of the batch entries that are neither stored nor seen earlier
\* in the batch, ignoring case
FirstOccurrences(b) ==
    { i \in 1..Len(b) :
        /\ \A id \in DOMAIN words : ~SameIgnoringCase(words[id].english, b[i].english)
        /\ \A j \in 1..(i - 1) : ~SameIgnoringCase(b[j].english, b[i].english) }

\* the english strings of the batch entries at the positions in S, in batch order
RECURSIVE EnglishAt(_, _, _)
EnglishAt(b, S, i) ==
    IF i > Len(b) THEN <<>>
    ELSE (IF i \in S THEN <<b[i].english>> ELSE <<>>) \o EnglishAt(b, S, i + 1)

\* C11: bulkCreate adds exactly the first occurrence of each english string
\* that, ignoring case, is neither stored nor seen earlier in the batch; every
\* other entry is listed in skippedWords in its original case and in batch
\* order; added + skipped = batch length; stored words are left alone.
C11_BulkFirstOccurrences ==
    [][\A b \in (IF result'.op = "bulkAddWords" THEN {result'.batch} ELSE {}) :
        bulkAddWords(b) =>
          LET K      == FirstOccurrences(b)
              kept   == EnglishAt(b, K, 1)
              others == EnglishAt(b, (1..Len(b)) \ K, 1)
              newIds == (DOMAIN words') \ (DOMAIN words)
          IN  /\ Cardinality(newIds) = Len(kept)
              /\ {words'[id].english : id \in newIds} = {kept[k] : k \in 1..Len(kept)}
              /\ \A id \in DOMAIN words : id \in DOMAIN words' /\ words'[id] = words[id]
              /\ result'.added = Len(kept)
              /\ result'.skippedWords = others
              /\ result'.skipped = Len(others)
              /\ result'.added + result'.skipped = Len(b)
      ]_vars

\* the batch <<"Cat", "cat">> into a store holding "dog": "Cat" is added,
\* "cat" is skipped and reported in its own case
C11_Witness ==
    /\ result.op = "bulkAddWords"
    /\ Len(result.batch) = 2
    /\ result.batch[1].english = Cat_ /\ result.batch[2].english = cat_
    /\ result.added = 1 /\ result.skippedWords = <<cat_>>
    /\ \E id \in DOMAIN words : words[id].english = dog_
    /\ \E id \in DOMAIN words : words[id].english = Cat_

\* C12: a successful create stores a word with status new, both counters 0
\* and streak 0 and returns its id; a create rejected as a duplicate returns
\* the duplicate outcome without an id and leaves the word store unchanged,
\* the stored word's status, counters and streak included.
C12_CreateOutcome ==
    [][\A d \in ReviewDrafts : addWord(d) =>
          IF \E id \in DOMAIN words : SameIgnoringCase(words[id].english, d.english)
          THEN /\ result'.isDuplicate /\ result'.id = NullId
               /\ words' = words
          ELSE /\ ~result'.isDuplicate
               /\ result'.id \notin DOMAIN words
               /\ DOMAIN words' = (DOMAIN words) \cup {result'.id}
               /\ words'[result'.id].english = d.english
               /\ words'[result'.id].status = "new"
               /\ words'[result'.id].correctCount = 0
               /\ words'[result'.id].wrongCount = 0
               /\ words'[result'.id].streak = 0
               /\ \A id \in DOMAIN words : words'[id] = words[id]
      ]_vars

\* "cat" was offered again while the stored "cat" was a problem word with
\* streak 2 and non-zero counters
C12_Witness ==
    /\ result.op = "addWord" /\ result.isDuplicate /\ result.english = cat_
    /\ \E id \in DOMAIN words :
          /\ words[id].english = cat_
          /\ words[id].status = "problem" /\ words[id].streak = 2
          /\ words[id].wrongCount = 1 /\ words[id].correctCount = 2


----------------------------------------------------------------------------
(* Properties of all word operations (SpecWords) *)

\* C13: a setStatus step changes only the status and lastReviewedAt of the
\* word it names: that word's correctCount, wrongCount, streak, createdAt
\* and content, every other word, and the StreakData and DailyReviewCount
\* records are unchanged.
C13_SetStatusFrame ==
    [][\A id \in Ids, st \in Statuses :
          updateWordStatus(id, st) =>
            /\ DOMAIN words' = DOMAIN words
            /\ \A w \in DOMAIN words \ {id} : words'[w] = words[w]
            /\ id \in DOMAIN words =>
                 /\ words'[id].status = st
                 /\ words'[id].correctCount = words[id].correctCount
                 /\ words'[id].wrongCount = words[id].wrongCount
                 /\ words'[id].streak = words[id].streak
                 /\ words'[id].createdAt = words[id].createdAt
                 /\ words'[id].english = words[id].english
                 /\ words'[id].arabicMeanings = words[id].arabicMeanings
                 /\ words'[id].exampleSentences = words[id].exampleSentences
            /\ streakData' = streakData
            /\ dailyReviewCounts' = dailyReviewCounts]_vars

\* setStatus(known) has acted on a problem word with two Corrects in a row,
\* next to another stored word
C13_Witness ==
    /\ result.op = "updateWordStatus"
    /\ \E id \in DOMAIN words :
          /\ words[id].status = "known"
          /\ words[id].streak = 2
          /\ words[id].correctCount = 2
          /\ words[id].wrongCount = 1
          /\ words[id].lastReviewedAt = now
          /\ \E w \in DOMAIN words : w # id

\* C14 as stated: every stored word has streak in 0..3, and a known word
\* has streak 0
C14_AsStated ==
    \A id \in DOMAIN words :
        /\ words[id].streak \in 0..3
        /\ words[id].status = "known" => words[id].streak = 0

\* C14: every stored word has streak in 0..3; create, bulkCreate and every
\* review event leave a known or new word with streak 0; every other
\* operation, setStatus included, leaves the streak of a stored word as it
\* was, so a word made known by setStatus keeps the streak it had.
C14_StreakInvariant ==
    [][\A id \in DOMAIN words' :
          /\ words'[id].streak \in 0..3
          /\ (id \notin DOMAIN words \/ Reviewed(id)) =>
                (words'[id].status \in {"known", "new"} => words'[id].streak = 0)
          /\ (id \in DOMAIN words /\ ~Reviewed(id)) =>
                words'[id].streak = words[id].streak]_vars

\* a word is known with streak 1: setStatus(known) on a problem word after
\* one Correct
C14_Witness ==
    \E id \in DOMAIN words :
        /\ words[id].status = "known"
        /\ words[id].streak = 1
        /\ hist[id] = <<"wrong", "correct">>


----------------------------------------------------------------------------
(* Properties of the content of words (SpecContent) *)

\* no entry of the list is a non-empty string
NoSentence(ss) == \A i \in 1..Len(ss) : ss[i] = <<>>

OneEmptyString == << <<>> >>

----------------------------------------------------------------------------
(* Properties of the store's handlers (SpecApp) *)

\* C16: reviewsToday and the DailyReviewCount rows count review actions
\* only: the streak record and the daily counts change only on a step that
\* applies a Correct or Wrong review event to a stored word, and saveWord,
\* importWords, a content edit and removeWord leave both unchanged.
C16_ReviewsOnly ==
    [][/\ (loadedStreak' # loadedStreak \/ dailyReviewCounts' # dailyReviewCounts) =>
            \E id \in DOMAIN words : Reviewed(id)
       /\ \A e \in AppWords :
            saveWord(e) =>
                (loadedStreak' = loadedStreak /\ dailyReviewCounts' = dailyReviewCounts)
       /\ \A b \in AppBatches :
            importWords(b) =>
                (loadedStreak' = loadedStreak /\ dailyReviewCounts' = dailyReviewCounts)
       /\ \A id \in DOMAIN words :
            (editWordContent(id, Meanings2) \/ removeWord(id)) =>
                (loadedStreak' = loadedStreak /\ dailyReviewCounts' = dailyReviewCounts)]_vars


----------------------------------------------------------------------------
(* Properties of the daily review counts (SpecStreak) *)

\* C17: every review on day T increases the DailyReviewCount row of T by
\* exactly 1, creating it with count 1 when absent, and changes no other
\* row; no step decreases a row's count or removes a row.
C17_DailyCountIncrement ==
    [][/\ updateStreak =>
            /\ DOMAIN dailyReviewCounts' = DOMAIN dailyReviewCounts \cup {today}
            /\ dailyReviewCounts'[today] =
                  IF today \in DOMAIN dailyReviewCounts
                  THEN dailyReviewCounts[today] + 1 ELSE 1
            /\ \A d \in DOMAIN dailyReviewCounts \ {today} :
                  dailyReviewCounts'[d] = dailyReviewCounts[d]
       /\ \A d \in DOMAIN dailyReviewCounts :
            /\ d \in DOMAIN dailyReviewCounts'
            /\ dailyReviewCounts'[d] >= dailyReviewCounts[d]]_vars

\* three reviews were counted on day 0 and the first review of day 1 has
\* created that day's row
C17_Witness ==
    /\ today = <<1>>
    /\ DOMAIN dailyReviewCounts = {<<0>>, <<1>>}
    /\ dailyReviewCounts[<<0>>] = 3
    /\ dailyReviewCounts[<<1>>] = 1


----------------------------------------------------------------------------
(* Properties of the range query (SpecRange) *)

\* C18: the range query returns exactly one entry for each calendar day
\* from start to end inclusive, in ascending order, with the recorded count
\* of that day or 0 when it has no row: (end - start) + 1 entries when
\* start <= end, none when start > end.
C18_DenseRange ==
    [][\A startDate, endDate \in RangeDates :
          getReviewCountsByDateRange(startDate, endDate) =>
            LET rows == result'.rows
                s    == DayOf(startDate)
                e    == DayOf(endDate)
            IN  /\ Len(rows) = IF s <= e THEN (e - s) + 1 ELSE 0
                /\ \A i \in 1..Len(rows) :
                      /\ rows[i].date = <<s + (i - 1)>>
                      /\ rows[i].count = CountOn(rows[i].date)]_vars


----------------------------------------------------------------------------
(* Properties of the progress buckets (SpecBuckets) *)

Filtered == result.op = "filterByProgress"

\* the exact ratio correctCount / (correctCount + wrongCount), 0 when both
\* are 0, as numerator and denominator
RatioNum == IF result.correctCount + result.wrongCount = 0 THEN 0 ELSE result.correctCount
RatioDen == IF result.correctCount + result.wrongCount = 0 THEN 1
            ELSE result.correctCount + result.wrongCount

\* C19: for every pair of counters the word matches at most one of the
\* buckets moderate, hard and very hard, and a word whose progress is at
\* least 0.90 matches none of them.
C19_BucketsDisjoint ==
    Filtered =>
        /\ ~(result.kept["moderate"] /\ result.kept["hard"])
        /\ ~(result.kept["moderate"] /\ result.kept["very hard"])
        /\ ~(result.kept["hard"] /\ result.kept["very hard"])
        /\ (10 * RatioNum >= 9 * RatioDen) =>
              /\ ~result.kept["moderate"]
              /\ ~result.kept["hard"]
              /\ ~result.kept["very hard"]

\* a word with progress exactly 0.90 falls in no bucket and is kept by "all"
C19_Witness ==
    /\ Filtered
    /\ result.correctCount = 9
    /\ result.wrongCount = 1
    /\ result.kept = [f \in ProgressFilters |-> f = "all"]

\* C20 as stated: the buckets are those of the exact ratio
C20_AsStated ==
    Filtered =>
        /\ result.kept["moderate"] <=>
              (66 * RatioDen <= 100 * RatioNum /\ 100 * RatioNum < 90 * RatioDen)
        /\ result.kept["hard"] <=>
              (33 * RatioDen <= 100 * RatioNum /\ 100 * RatioNum < 66 * RatioDen)
        /\ result.kept["very hard"] <=> (100 * RatioNum < 33 * RatioDen)

\* C20: the buckets are those of the ratio rounded to a whole percentage, a
\* half going up: moderate iff 0.655 <= progress < 0.895, hard iff
\* 0.325 <= progress < 0.655, very hard iff progress < 0.325.
C20_RoundedBuckets ==
    Filtered =>
        /\ result.kept["moderate"] <=>
              (131 * RatioDen <= 200 * RatioNum /\ 200 * RatioNum < 179 * RatioDen)
        /\ result.kept["hard"] <=>
              (65 * RatioDen <= 200 * RatioNum /\ 200 * RatioNum < 131 * RatioDen)
        /\ result.kept["very hard"] <=> (200 * RatioNum < 65 * RatioDen)

\* correct = 19, wrong = 10 (progress 0.655) is moderate and not hard
C20_Witness ==
    /\ Filtered
    /\ result.correctCount = 19
    /\ result.wrongCount = 10
    /\ result.kept["moderate"]
    /\ ~result.kept["hard"]

----------------------------------------------------------------------------
(* Properties of the stored snapshot and the preferred size (SpecStorage) *)

\* the stored in-progress value has an array wordIds and a numeric currentIndex
ValidStored ==
    /\ STORAGE_KEY \in DOMAIN localStorage
    /\ localStorage[STORAGE_KEY].kind = "json"
    /\ localStorage[STORAGE_KEY].value.t = "object"
    /\ LET o == localStorage[STORAGE_KEY].value.o
       IN  /\ "wordIds" \in DOMAIN o /\ o.wordIds.t = "array"
           /\ "currentIndex" \in DOMAIN o /\ o.currentIndex.t = "number"

\* the field k of the stored object when it has the type ty, else the default
StoredOr(k, ty, default) ==
    LET o == localStorage[STORAGE_KEY].value.o
    IN  IF k \in DOMAIN o /\ o[k].t = ty THEN o[k] ELSE default

\* C27: reading the in-progress slot gives "no saved session" when the stored
\* value is missing, unparseable or lacks an array wordIds or a numeric
\* currentIndex; otherwise it gives the stored ids and cursor, and every
\* optional field that is missing or ill-typed is replaced by its default
\* (filterType all, dateRange 30, tallies 0).
C27_DefaultsForIllTyped ==
    result.op = "getSavedSession" =>
        IF ~ValidStored THEN Len(result.session) = 0
        ELSE /\ Len(result.session) = 1
             /\ result.session[1].wordIds = localStorage[STORAGE_KEY].value.o.wordIds.a
             /\ result.session[1].currentIndex
                    = localStorage[STORAGE_KEY].value.o.currentIndex.n
             /\ result.session[1].filterType = StoredOr("filterType", "string", JStr("all"))
             /\ result.session[1].dateRange = StoredOr("dateRange", "number", JNum(30)).n
             /\ result.session[1].knownCount = StoredOr("knownCount", "number", JNum(0)).n
             /\ result.session[1].problemCount = StoredOr("problemCount", "number", JNum(0)).n

\* the strings that are no integer >= 1
InvalidSizes ==
    { PlainText(<<>>), PlainText(<<"a", "b">>), PlainText(<<"0">>), PlainText(<<"-", "3">>) }

\* C28: saving a size n >= 1 and reading gives n; saving a size below 1 leaves
\* what is stored unchanged; writing or clearing a snapshot never changes the
\* size read; the size read is 20 when no size or no integer >= 1 is stored.
C28_PreferredSize ==
    [][ /\ result'.op = "saveSessionSize" /\ result'.size >= 1
            => getSavedSessionSize' = result'.size
        /\ result'.op = "saveSessionSize" /\ result'.size < 1
            => localStorage' = localStorage
        /\ result'.op \in {"saveSession", "saveLastCompletedSession", "clearSavedSession"}
            => getSavedSessionSize' = getSavedSessionSize
        /\ result'.op = "getSavedSessionSize"
            => /\ result'.size = getSavedSessionSize
               /\ (\/ SESSION_SIZE_KEY \notin DOMAIN localStorage
                   \/ localStorage[SESSION_SIZE_KEY] \in InvalidSizes)
                     => result'.size = 20 ]_vars

\* a size below 1 was refused after the largest size had been saved
C28_Witness ==
    /\ result.op = "saveSessionSize"
    /\ result.size = 0
    /\ SESSION_SIZE_KEY \in DOMAIN localStorage
    /\ localStorage[SESSION_SIZE_KEY] = PlainText(numberToString(MaxSize))
    /\ getSavedSessionSize = MaxSize

----------------------------------------------------------------------------
(* Properties of the options screen (SpecOptions) *)

\* the ids the selected filter and bucket match
selected == filterWords(now, flash.filterType, flash.dateRange, progressFilterOf(flash))

\* C21: starting a session with requested size N >= 1 gives a session of
\* exactly min(N, number of matching words) distinct matching words; when no
\* word matches, no session is started and no snapshot is written.
C21_SessionSize ==
    [][ OptionsStart =>
          IF selected = {}
          THEN /\ ~flash'.sessionStarted
               /\ localStorage' = localStorage
          ELSE /\ flash.sessionSize >= 1
               /\ flash'.sessionStarted
               /\ Len(flash'.shuffledWords) = Min(flash.sessionSize, Cardinality(selected))
               /\ Range(flash'.shuffledWords) \subseteq selected
               /\ Cardinality(Range(flash'.shuffledWords)) = Len(flash'.shuffledWords) ]_vars

\* a session of one word was started while two words matched
C21_Witness ==
    /\ cardScreen
    /\ flash.sessionSize = 1
    /\ Len(flash.shuffledWords) = 1
    /\ Cardinality(selected) = 2
    /\ getSavedSession # <<>>

\* C22: on the options screen, for every filter and every bucket selected
\* under all or problem, the count shown is the number of words the selection
\* matches, the session size shown is the size of the session that would be
\* started, and the start button is enabled exactly when a word matches.
C22_PreviewIsSelection ==
    optionsScreen =>
        /\ getSelectedFilterCount = Cardinality(selected)
        /\ getEffectiveSessionSize
              = (IF selected = {} THEN 0
                 ELSE Min(requested(flash.sessionSize), Cardinality(selected)))
        /\ (getSelectedFilterCount # 0) = (selected # {})

----------------------------------------------------------------------------
(* Properties of the by-date filter (SpecByDate) *)

\* the wall clock of the device at the instant t shows midnight
IsLocalMidnight(t) == (t + (IF t < zone.at THEN zone.before ELSE zone.after)) % HoursPerDay = 0

\* the latest instant up to t at which the device showed midnight
LastLocalMidnight(t) ==
    CHOOSE m \in (t - HoursPerDay - 1)..t :
        /\ IsLocalMidnight(m)
        /\ \A later \in (m + 1)..t : ~IsLocalMidnight(later)

\* C23: the by-date filter with daysBack = 0 keeps exactly the words created
\* at or after the most recent local midnight, and with daysBack = d > 0
\* exactly the words created at or after now - d * 24 hours.
C23_ByDate ==
    result.op = "filterWords" =>
        result.kept =
            { id \in DOMAIN words :
                words[id].createdAt >=
                    (IF result.dateRange = 0 THEN LastLocalMidnight(result.now)
                     ELSE result.now - result.dateRange * HoursPerDay) }

\* today's words were asked for in a zone that is not UTC: a word is kept
\* and a word created less than 24 hours ago is left out
C23_Witness ==
    /\ result.op = "filterWords"
    /\ result.dateRange = 0
    /\ zone # Utc
    /\ \E kept \in result.kept, other \in DOMAIN words \ result.kept :
          result.now - words[other].createdAt < HoursPerDay

----------------------------------------------------------------------------
(* Properties of the session and its snapshots (SpecSession) *)

\* C24: while a session is active and no card handler is running, the
\* in-progress snapshot mirrors the live session: the same ids in the same
\* order, currentIndex equal to the cursor, and the session's tallies (after
\* a start: cursor 0 and tallies 0/0).
C24_SnapshotMirrorsSession ==
    cardScreen =>
        /\ Len(getSavedSession) = 1
        /\ getSavedSession[1].wordIds = flash.shuffledWords
        /\ getSavedSession[1].currentIndex = flash.currentIndex
        /\ getSavedSession[1].knownCount = flash.sessionKnownCount
        /\ getSavedSession[1].problemCount = flash.sessionProblemCount

\* the last card of the live session is showing
onLastCard == flash.currentIndex = Len(flash.shuffledWords) - 1

\* the last-completed slot of storage holds the ids and the tallies given
lastCompletedIs(storage, ids, knownCount, problemCount) ==
    /\ LAST_COMPLETED_KEY \in DOMAIN storage
    /\ storage[LAST_COMPLETED_KEY].value.o.wordIds.a = ids
    /\ storage[LAST_COMPLETED_KEY].value.o.knownCount.n = knownCount
    /\ storage[LAST_COMPLETED_KEY].value.o.problemCount.n = problemCount

C26_ResumeFromSnapshot ==
    [][ /\ SessionContinueLast =>
            /\ Len(getSavedSession) = 1
            /\ flash'.shuffledWords = existing(getSavedSession[1].wordIds, words)
            /\ flash'.currentIndex = Min(Max(0, getSavedSession[1].currentIndex),
                                         Len(flash'.shuffledWords) - 1)
        /\ optionsScreen /\ Len(flash.resumableSession) # 0 =>
            /\ Len(getSavedSession) = 1
            /\ Range(getSavedSession[1].wordIds) \cap DOMAIN words # {} ]_vars

----------------------------------------------------------------------------
(* Properties of the gateway calls (SpecGateway) *)

GatewayOps == {"generateWords", "suggestMeanings", "generateScenarios", "analyzeSentence"}

\* C29: a failed gateway call (generateWords, suggestMeanings,
\* generateScenarios, analyzeSentence) surfaces an error, as the store's error
\* or as a thrown error, and leaves the words, the streak data, the daily
\* review counts and both snapshot slots unchanged.
C29_GatewayFailure ==
    [][ result'.op \in GatewayOps /\ result'.failed /\ result' # result =>
          /\ Len(result'.error) = 1 \/ Len(result'.thrown) = 1
          /\ UNCHANGED <<words, streakData, dailyReviewCounts>>
          /\ getItem(STORAGE_KEY)' = getItem(STORAGE_KEY)
          /\ getItem(LAST_COMPLETED_KEY)' = getItem(LAST_COMPLETED_KEY) ]_vars

\* generateWords failed while a session was in progress after a completed one
C29_Witness ==
    /\ result.op = "generateWords"
    /\ result.failed
    /\ result.error = <<"Failed to generate words">>
    /\ DOMAIN words # {}
    /\ STORAGE_KEY \in DOMAIN localStorage
    /\ LAST_COMPLETED_KEY \in DOMAIN localStorage
    /\ DOMAIN dailyReviewCounts # {}

----------------------------------------------------------------------------
(* Properties of the handlers called with a missing id (SpecAnyId) *)

\* C30: a review, a content edit or a delete addressed to an id that is not
\* stored changes no stored word, nor the streak data, nor the daily review
\* counts.
C30_MissingIdNoOp ==
    [][ \A id \in Ids \ DOMAIN words :
            \/ markAsKnown(id) \/ markAsProblem(id)
            \/ markProblemAsKnown(id) \/ markProblemAsStillProblem(id)
            \/ editWordContent(id, Meanings2) \/ removeWord(id)
          => UNCHANGED <<words, streakData, dailyReviewCounts>> ]_vars

----------------------------------------------------------------------------
(* Further properties of the options screen (SpecOptions) *)

\* the word id satisfies the filter and bucket selected on the options screen
satisfiesSelection(id) ==
    CASE flash.filterType = "new"     -> words[id].status = "new"
      [] flash.filterType = "problem" ->
            /\ words[id].status = "problem"
            /\ matchesProgress(flash.problemProgressFilter, words[id].correctCount,
                               words[id].wrongCount)
      [] flash.filterType = "all"     ->
            matchesProgress(flash.allWordsProgressFilter, words[id].correctCount,
                            words[id].wrongCount)
      [] flash.filterType = "date"    ->
            words[id].createdAt >= (IF flash.dateRange = 0 THEN LastLocalMidnight(now)
                                    ELSE now - flash.dateRange * HoursPerDay)

\* C33: the word list of a started session holds no word twice and only
\* stored words that satisfy the selected filter at start time, and the
\* wordIds of the snapshot written are that list, pairwise distinct.
C33_NoDuplicatesOnlyMatching ==
    [][ OptionsStart /\ flash'.sessionStarted =>
          /\ \A i, j \in 1..Len(flash'.shuffledWords) :
                flash'.shuffledWords[i] = flash'.shuffledWords[j] => i = j
          /\ \A i \in 1..Len(flash'.shuffledWords) :
                /\ flash'.shuffledWords[i] \in DOMAIN words
                /\ satisfiesSelection(flash'.shuffledWords[i])
          /\ STORAGE_KEY \in DOMAIN localStorage'
          /\ localStorage'[STORAGE_KEY].value.o.wordIds.a = flash'.shuffledWords ]_vars

\* a session over the very hard problem words was started: it holds the one
\* such word and not the other word of the pool
C33_Witness ==
    /\ cardScreen
    /\ flash.filterType = "problem"
    /\ flash.problemProgressFilter = "very hard"
    /\ Len(flash.shuffledWords) = 1
    /\ Cardinality(DOMAIN words) = 2
    /\ getSavedSession # <<>>
    /\ getSavedSession[1].wordIds = flash.shuffledWords

----------------------------------------------------------------------------
(* Frame of a content edit (SpecFrame) *)

\* C35: an updateContent step, from the db layer or from the store, changes
\* at most arabicMeanings and exampleSentences of the word it names: that
\* word's status, streak, correctCount, wrongCount, createdAt, lastReviewedAt
\* and english, every other word, the key set and the StreakData and
\* DailyReviewCount records are unchanged; and under every operation a word
\* that stays stored keeps its id (its key and its english) and its createdAt.
C35_UpdateContentFrame ==
    [][
        /\ \A id \in Ids, u \in WordUpdates \cup {[arabicMeanings |-> Meanings2]} :
              updateWordContent(id, u) =>
                /\ DOMAIN words' = DOMAIN words
                /\ \A w \in DOMAIN words \ {id} : words'[w] = words[w]
                /\ id \in DOMAIN words =>
                     /\ words'[id].status = words[id].status
                     /\ words'[id].streak = words[id].streak
                     /\ words'[id].correctCount = words[id].correctCount
                     /\ words'[id].wrongCount = words[id].wrongCount
                     /\ words'[id].createdAt = words[id].createdAt
                     /\ words'[id].lastReviewedAt = words[id].lastReviewedAt
                     /\ words'[id].english = words[id].english
                /\ streakData' = streakData
                /\ dailyReviewCounts' = dailyReviewCounts
        /\ \A w \in DOMAIN words \cap DOMAIN words' :
              /\ words'[w].createdAt = words[w].createdAt
              /\ words'[w].english = words[w].english
    ]_vars

\* an edit has acted, at a later reading of the clock, on a reviewed problem
\* word created before another stored word
C35_Witness ==
    /\ result.op = "updateWordContent"
    /\ \E id \in DOMAIN words :
          /\ words[id].arabicMeanings = Meanings2
          /\ words[id].status = "problem"
          /\ words[id].wrongCount = 1
          /\ words[id].createdAt < words[id].lastReviewedAt
          /\ \E w \in DOMAIN words : words[w].createdAt > words[id].createdAt

----------------------------------------------------------------------------
(* The two review counters (SpecStreak) *)

RECURSIVE SumCounts(_, _)
SumCounts(counts, dates) ==
    IF dates = {} THEN 0
    ELSE LET d == CHOOSE x \in dates : TRUE
         IN  counts[d] + SumCounts(counts, dates \ {d})

TotalCounted == SumCounts(dailyReviewCounts, DOMAIN dailyReviewCounts)

\* C39: starting from an empty installation, with reviews executed one after
\* the other and the clock moving forward between them, reviewsToday always
\* equals the count of the DailyReviewCount row of reviewsDate (0 when there
\* is no such row), and the sum of all DailyReviewCount counts is the number
\* of review actions counted so far: it starts at 0, every updateStreak step
\* adds exactly 1 to it and no other step changes it.
C39_CountersAgree ==
    /\ [](loadedStreak.reviewsToday = CountOn(loadedStreak.reviewsDate))
    /\ [](streakData = EmptyTable => TotalCounted = 0)
    /\ [][TotalCounted' = TotalCounted + (IF updateStreak THEN 1 ELSE 0)]_vars

\* two reviews on day 0, then three on day 2
C39_Witness ==
    /\ CountOn(<<0>>) = 2
    /\ loadedStreak.reviewsDate = <<2>>
    /\ loadedStreak.reviewsToday = 3
    /\ TotalCounted = 5

----------------------------------------------------------------------------
(* The cursor of a session (SpecSession) *)

\* cards still to be resolved in the active session
cardsLeft == Len(flash.shuffledWords) - flash.currentIndex

C37_TalliesCountCards ==
    /\ getSavedSession # <<>> =>
          getSavedSession[1].knownCount + getSavedSession[1].problemCount
              = getSavedSession[1].currentIndex
    /\ completeScreen =>
          flash.sessionKnownCount + flash.sessionProblemCount = Len(flash.shuffledWords)
    /\ getLastCompletedSession # <<>> =>
          getLastCompletedSession[1].knownCount + getLastCompletedSession[1].problemCount
              = Len(getLastCompletedSession[1].wordIds)

----------------------------------------------------------------------------
(* Resuming after deletions (SpecResume) *)

\* position (from 1) of the pending card in the saved snapshot
savedCursor == getSavedSession[1].currentIndex + 1

\* C38: resuming never skips a pending card: on a resume, if the word at the
\* saved cursor still exists it is the word at the resumed cursor, and every
\* word at or after the saved cursor that still exists is at or after the
\* resumed cursor, also when words before the cursor were deleted.
C38_ResumeKeepsPending ==
    [][
        (optionsScreen /\ continueLastSession /\ flash'.sessionStarted /\ getSavedSession # <<>>) =>
            LET ids == getSavedSession[1].wordIds
            IN  /\ (savedCursor <= Len(ids) /\ ids[savedCursor] \in DOMAIN words) =>
                      flash'.shuffledWords[flash'.currentIndex + 1] = ids[savedCursor]
                /\ \A i \in savedCursor..Len(ids) :
                      ids[i] \in DOMAIN words =>
                         \E j \in (flash'.currentIndex + 1)..Len(flash'.shuffledWords) :
                            flash'.shuffledWords[j] = ids[i]
    ]_vars

----------------------------------------------------------------------------
(* Repeated key presses (SpecKeys) *)

\* C31: each card of a session is resolved by exactly one review-outcome
\* update, also when a key is pressed again while an earlier handler call
\* still waits for the store: once the session (the first on an empty
\* installation) is complete and no call is waiting, every word of the
\* session has exactly one review event and reviewsToday is the number of
\* cards.
C31_OneUpdatePerCard ==
    (completeScreen /\ flash.inFlight = <<>>) =>
        /\ \A i \in 1..Len(flash.shuffledWords) : Len(hist[flash.shuffledWords[i]]) = 1
        /\ loadedStreak.reviewsToday = Len(flash.shuffledWords)

----------------------------------------------------------------------------
(* Review operations in flight at once (SpecRace) *)

\* review operations begun on word id, the earlier sequential ones included
begunOn(id) == Len(hist[id])

\* C32: writes to the Streak record and to a Word record are serialized:
\* whenever the review operations begun so far have all completed, whatever
\* the interleaving of their reads and writes, reviewsToday and today's
\* DailyReviewCount both equal the number of operations begun today, each
\* word's correctCount + wrongCount equals the number begun on it, and the
\* streak step of the 20th review has been applied exactly once.
C32_WritesSerialized ==
    (result.op = "reviews" /\ result.calls = <<>> /\ ~result.failed) =>
        /\ loadedStreak.reviewsToday = TotalReviews
        /\ CountOn(today) = TotalReviews
        /\ \A id \in DOMAIN words :
              words[id].correctCount + words[id].wrongCount = begunOn(id)
        /\ loadedStreak.currentStreak = (IF TotalReviews >= DAILY_QUOTA THEN 1 ELSE 0)

----------------------------------------------------------------------------
(* Reading stored rows (SpecRows) *)

\* C36: every word returned by listAll / listByStatus has an exampleSentences
\* list of 1 to 3 entries, whatever the stored representation of the row:
\* a legacy exampleSentence string, a missing or empty list, a list of more
\* than three entries, or the fallback list holding one empty string.
C36_ReadSentenceCount ==
    result.op \in {"getAllWords", "getWordsByStatus"} =>
        \A id \in DOMAIN result.rows : Len(result.rows[id].exampleSentences) \in 1..3

====
